---- MODULE Spec2Model ----
(***************************************************************************)
(* A model of the rendezvous (signaling) server of signaling_server.py.     *)
(*                                                                          *)
(* The server is one asyncio event loop.  Every websocket connection is     *)
(* served by its own handle_client coroutine; coroutines interleave only at *)
(* their await points.  A call `await ws.send(x)` writes x to ws (or raises *)
(* ConnectionClosed when ws is closed) and may then suspend the caller, so  *)
(* each action below runs one handler from one suspension point up to and   *)
(* including the next send.                                                 *)
(*                                                                          *)
(* The second part models the client program of webrtc_client.py: its       *)
(* signaling loop, its P2P session and the callbacks of its negotiation     *)
(* engine (aiortc), which run as tasks of the client's own event loop.      *)
(* The third part models the host program of webrtc_host.py in the same     *)
(* way.                                                                     *)
(***************************************************************************)
EXTENDS Naturals, Sequences, FiniteSets

\* ------------------------------------------------------------------ bounds
\* Frames the peers may put on the wire in one behaviour, all connections
\* together.
MaxFrames == 3

\* Frames that may wait unread in one connection's receive buffer.
MaxBuffered == 2

\* Messages the rendezvous channel may deliver to the client program when the
\* channel is driven by the environment (SpecClient).
MaxInbound == 4

\* connectionstatechange callbacks that may be scheduled and not yet run.
MaxEvents == 2

\* ICE candidates the client's engine may hand to on_icecandidate and that
\* are sent on (SpecClientIce).
MaxCandidates == 1

\* register frames of returning identities, on top of MaxFrames
MaxRejoins == 1

\* Messages the rendezvous channel may deliver to the host program when the
\* channel is driven by the environment (SpecHost).
MaxHostInbound == 4

\* --------------------------------------------------------------- universe
\* websocket objects (connection handles), numbered in the order accepted
Conns == {"w1", "w2", "w3"}

ConnIdx == [c \in Conns |-> CASE c = "w1" -> 1 [] c = "w2" -> 2 [] OTHER -> 3]

\* peer ids are opaque non-empty strings (truthy in `if peer_id:` and
\* `if host_id`), numbered in the order they first appear in a frame
PeerIds == {"p1", "p2", "p3"}

PeerIdx == [p \in PeerIds |-> CASE p = "p1" -> 1 [] p = "p2" -> 2 [] OTHER -> 3]

\* 'viewer' stands for any peer_type that is neither 'host' nor 'client'
PeerTypes == {"host", "client", "viewer"}

\* a register frame either carries no room_id (Absent) or carries one
Absent == "<absent>"
RoomFields == {Absent, "r1"}

\* Python's None
None == "<None>"

RelayTypes == {"offer", "answer", "ice_candidate", "client_ready"}

\* register frames; the server reads room_id with a default (line 27)
RegisterFrames ==
    [type : {"register"}, peer_type : PeerTypes, peer_id : PeerIds,
     room_id : RoomFields]

\* the payload of a relay frame is opaque to the server; the model uses it
\* to number the frames of one connection in the order the peer sent them
RelayFrame(t, s, g, n) ==
    [type |-> t, sender |-> s, target |-> g, payload |-> n]

\* frames the server drops.  The model keeps of a frame what json.loads and
\* data.get('type') make of it: Unparseable is text json.loads rejects
\* (line 125), NoType an object without a 'type' key (data.get gives None),
\* and the others carry a type the dispatch of lines 115-123 does not know.
Unparseable == [type |-> "<invalid json>"]

NoType == [type |-> None]

UnknownTypes == {"host_disconnected", "client_disconnected"}

UnknownFrame(t, s, g) == [type |-> t, sender |-> s, target |-> g, payload |-> 0]

\* WebRTCClient.peer_id (line 27) and the host ids the client may hear of
ClientId == "p2"

HostIds == {"p1", "p3"}

\* the RTCPeerConnection objects of the client, numbered as they are created;
\* NoPc is self.peer_connection = None
PcIds == 1..MaxInbound

NoPc == 0

\* WebRTCHost.peer_id (webrtc_host.py, line 85) and the clients the host may
\* hear of
HostId == "p1"

ClientIds == {"p2", "p3"}

\* the RTCPeerConnection objects of the host, numbered as they are created
HostPcIds == 1..MaxHostInbound

\* RTCPeerConnection.connectionState values that end a connection
Terminal == {"closed", "failed", "disconnected"}

\* ------------------------------------------------------------------ state
VARIABLES
    hosts,      \* SignalingServer.hosts   : peer id -> websocket
    clients,    \* SignalingServer.clients : peer id -> websocket
    rooms,      \* SignalingServer.rooms   : room id -> [host, clients]
    conn,       \* per websocket: "idle" (not yet accepted), "open", "closed"
    inq,        \* per websocket: frames received from the peer, not yet read
    pc,         \* per handler: where handle_client is suspended
    peer_id,    \* per handler: the local peer_id of handle_client
    room_id,    \* per handler: the room_id of the running register_peer
    host_id,    \* per handler: the host_id local of the running notify_peers
    client_ids, \* per handler: the client_ids local of the running notify_peers
    todo,       \* per handler: the part of client_ids the loop has not visited
    nframes,    \* frames put on the wire so far
    nsent,      \* per websocket: relay frames its peer has sent so far
    nids,       \* peer ids that have appeared in a frame so far
    out,        \* the send call made by the last step, NoSend if none
    \* history, read by no action:
    regd,       \* per websocket: the <<peer id, room>> pairs registered over it
    missed,     \* the targets relay_message has looked up and not found
    fwd,        \* per handler: <<target, payload>> of the frames it has relayed
    dropped,    \* per handler: the frames it has read and dropped
    held,       \* per handler: the host and clients of the room that have stayed
                \* registered since the running register_peer updated the room
    sent        \* per handler: the sends of the running notify_peers

\* the client program (WebRTCClient)
VARIABLES
    websocket,        \* self.websocket: "none", "open", "closed_ok" (closed
                      \* with a close frame) or "closed_error"
    cin,              \* messages received on the websocket, not yet read
    cout,             \* frames the client has written to the websocket
    cpc,              \* where start_client is: "start", "signaling" (awaiting
                      \* a message in handle_signaling_messages), "ha_closing"
                      \* and "hd_closing" (awaiting peer_connection.close()),
                      \* "p2p" (run_p2p_session), "stopped"
    peer_connection,  \* self.peer_connection: a PcIds member or NoPc
    cl_host_id,       \* self.host_id
    webrtc_connected, \* self.webrtc_connected
    signaling_needed, \* self.signaling_needed
    running,          \* self.running
    pcs,              \* per RTCPeerConnection: connectionState, and the sender
                      \* of the offer set as its remote description
    events,           \* scheduled runs of on_connectionstatechange
    tracks,           \* per RTCPeerConnection: its receive_video_frames task,
                      \* "none", "live" or "ended"
    monitor,          \* the monitor_signaling_connection task
    quit,             \* the user has pressed Q/ESC in the display window
    ndelivered,       \* messages the environment has delivered to the client
    timeouts,         \* check_streaming_timeout tasks that have run to their end
    \* history, read by no action:
    noticed,          \* host_available messages read while the websocket was open
    unanswered,       \* an offer has been read while the client held no
                      \* connection
    readied           \* client_ready frames written

srvVars == <<hosts, clients, rooms, conn, inq, pc, peer_id, room_id, host_id,
             client_ids, todo, nframes, nsent, nids, out, regd, missed, fwd,
             dropped, held, sent>>

clVars == <<websocket, cin, cout, cpc, peer_connection, cl_host_id,
            webrtc_connected, signaling_needed, running, pcs, events, tracks,
            monitor, quit, ndelivered, timeouts, unanswered, noticed, readied>>

\* the host program (WebRTCHost)
VARIABLES
    hws,              \* self.websocket: "none", "open", "closed_ok" or
                      \* "closed_error"
    hin,              \* messages received on the websocket, not yet read
    hout,             \* frames the host has written to the websocket
    hpc,              \* where start_host is: "start", "signaling" (awaiting a
                      \* message in handle_signaling_messages), "cd_closing"
                      \* (awaiting close() at line 254), "p2p"
                      \* (run_p2p_mode), "stopped"
    peer_connections, \* self.peer_connections: client id -> connection, NoPc
                      \* for a client without entry
    hpcs,             \* per RTCPeerConnection of the host: connectionState,
                      \* the client it was created for, and whether an
                      \* answer has been set as its remote description
    hevents,          \* the connections whose on_connectionstatechange is
                      \* scheduled
    hclosing,         \* the connections whose on_connectionstatechange
                      \* awaits close() at line 145
    hcd,              \* the client_id of handle_client_disconnected while it
                      \* awaits close() at line 254
    engine_failed,    \* the client whose message made the engine raise in
                      \* the last run of a message handler, or None
    hdelivered,       \* messages the environment has delivered to the host
    hprior            \* the callbacks that were scheduled already when
                      \* run_p2p_mode went to sleep (line 266)

hoVars ==
    <<hws, hin, hout, hpc, peer_connections, hpcs, hevents, hclosing, hcd,
      engine_failed, hdelivered, hprior>>

vars == <<srvVars, clVars, hoVars>>

NoSend == [to |-> None, by |-> None, msg |-> [type |-> None], ok |-> FALSE]

NoneHeld == [host |-> None, clients |-> {}]

\* ---------------------------------------------------------------- helpers
\* d[k] = v on a Python dict
DictSet(d, k, v) == [x \in (DOMAIN d) \cup {k} |-> IF x = k THEN v ELSE d[x]]

\* del d[k]
DictDel(d, k) == [x \in (DOMAIN d) \ {k} |-> d[x]]

EmptyDict == [x \in {} |-> None]

\* message.get('room_id', 'default')
ResolveRoom(m) == IF m.room_id = Absent THEN "default" ELSE m.room_id

\* websocket.send(msg) called by handler `by`: the frame is written when the
\* websocket is open, ConnectionClosed is raised otherwise
SendCall(by, to, msg) ==
    [to |-> to, by |-> by, msg |-> msg, ok |-> (conn[to] = "open")]

Max(a, b) == IF a >= b THEN a ELSE b

\* p has appeared in a frame, or is the next id to appear
Known(p) == PeerIdx[p] <= nids + 1

Init ==
    /\ hosts = EmptyDict
    /\ clients = EmptyDict
    /\ rooms = EmptyDict
    /\ conn = [c \in Conns |-> "idle"]
    /\ inq = [c \in Conns |-> <<>>]
    /\ pc = [c \in Conns |-> "idle"]
    /\ peer_id = [c \in Conns |-> None]
    /\ room_id = [c \in Conns |-> None]
    /\ host_id = [c \in Conns |-> None]
    /\ client_ids = [c \in Conns |-> {}]
    /\ todo = [c \in Conns |-> {}]
    /\ nframes = 0
    /\ nsent = [c \in Conns |-> 0]
    /\ nids = 0
    /\ out = NoSend
    /\ regd = [c \in Conns |-> {}]
    /\ missed = {}
    /\ fwd = [c \in Conns |-> {}]
    /\ dropped = [c \in Conns |-> 0]
    /\ held = [c \in Conns |-> NoneHeld]
    /\ sent = [c \in Conns |-> {}]
    \* WebRTCClient.__init__, lines 24-34
    /\ websocket = "none"
    /\ cin = <<>>
    /\ cout = <<>>
    /\ cpc = "start"
    /\ peer_connection = NoPc
    /\ cl_host_id = None
    /\ webrtc_connected = FALSE
    /\ signaling_needed = TRUE
    /\ running = FALSE
    /\ pcs = [i \in PcIds |-> [state |-> "none", remote |-> None]]
    /\ events = 0
    /\ tracks = [i \in PcIds |-> "none"]
    /\ monitor = "off"
    /\ quit = FALSE
    /\ ndelivered = 0
    /\ timeouts = 0
    /\ unanswered = FALSE
    /\ noticed = 0
    /\ readied = 0
    \* WebRTCHost.__init__, webrtc_host.py lines 82-87
    /\ hws = "none"
    /\ hin = <<>>
    /\ hout = <<>>
    /\ hpc = "start"
    /\ peer_connections = [c \in ClientIds |-> NoPc]
    /\ hpcs = [i \in HostPcIds |-> [state |-> "none", owner |-> None, remote |-> FALSE]]
    /\ hevents = {}
    /\ hclosing = {}
    /\ hcd = None
    /\ engine_failed = None
    /\ hprior = {}
    /\ hdelivered = 0

\* ------------------------------------------------- register_peer, lines 29-44
\* lines 29-30: self.hosts[peer_id] = websocket when peer_type == 'host'
HostsAfterRegister(hs, c, m) ==
    IF m.peer_type = "host" THEN DictSet(hs, m.peer_id, c) ELSE hs

\* lines 32-33: self.clients[peer_id] = websocket when peer_type == 'client'
ClientsAfterRegister(cs, c, m) ==
    IF m.peer_type = "client" THEN DictSet(cs, m.peer_id, c) ELSE cs

\* lines 37-38: the room is created on first use
RoomInit(rs, r) ==
    IF r \in DOMAIN rs THEN rs ELSE DictSet(rs, r, [host |-> None, clients |-> {}])

\* a variant that keeps the host a room already has
RoomsAfterRegisterKeepHost(rs, m) ==
    LET r == ResolveRoom(m)
        rs1 == RoomInit(rs, r)
    IN  IF m.peer_type = "host"
        THEN IF rs1[r].host = None THEN [rs1 EXCEPT ![r].host = m.peer_id] ELSE rs1
        ELSE [rs1 EXCEPT ![r].clients = @ \cup {m.peer_id}]

\* lines 41-44: a host becomes the room's host, every other peer_type is
\* added to the room's client set
RoomsAfterRegister(rs, m) ==
    LET r == ResolveRoom(m)
        rs1 == RoomInit(rs, r)
    IN  IF m.peer_type = "host"
        THEN [rs1 EXCEPT ![r].host = m.peer_id]
        ELSE [rs1 EXCEPT ![r].clients = @ \cup {m.peer_id}]

\* a variant that echoes the room_id field of the frame as it came
RegisteredMsgRawRoom(m) ==
    [type |-> "registered", peer_id |-> m.peer_id, room_id |-> m.room_id]

\* lines 47-51
RegisteredMsg(m) ==
    [type |-> "registered", peer_id |-> m.peer_id, room_id |-> ResolveRoom(m)]

\* --------------------------------------------------- notify_peers, 56-85
\* lines 72-76
HostAvailableMsg(h, r) ==
    [type |-> "host_available", host_id |-> h, room_id |-> r]

\* lines 81-85; client_ids is list(room['clients']), in no particular order
ClientsAvailableMsg(cids, r) ==
    [type |-> "clients_available", client_ids |-> cids, room_id |-> r]

\* line 68: if host_id and host_id in self.hosts
HostPresent(hid, hs) == hid # None /\ hid \in DOMAIN hs

\* a variant that tells the host only of two clients or more
HostToNotifyMany(hid, hs, cids) ==
    hid # None /\ hid \in DOMAIN hs /\ Cardinality(cids) > 1

\* line 79: if host_id and host_id in self.hosts and client_ids
HostToNotify(hid, hs, cids) == hid # None /\ hid \in DOMAIN hs /\ cids # {}

\* --------------------------------------------------- relay_message, 92-97
\* a variant that looks the target up among the clients only
TargetWsClientsOnly(hs, cs, t) == IF t \in DOMAIN cs THEN cs[t] ELSE None

\* the websocket relay_message picks for target t, None when there is none
TargetWs(hs, cs, t) ==
    IF t \in DOMAIN hs THEN hs[t]
    ELSE IF t \in DOMAIN cs THEN cs[t]
    ELSE None

\* a variant that tells the target that the sender has gone
ForwardedAsDisconnected(m) ==
    [type |-> "client_disconnected", sender |-> m.sender, target |-> m.target,
     payload |-> m.payload]

\* line 101: json.dumps(message) of the parsed frame: every field is kept
Forwarded(m) ==
    [type |-> m.type, sender |-> m.sender, target |-> m.target,
     payload |-> m.payload]

\* a variant that answers the sender when the target is not found
RelaySendWithReply(c, ws, m) ==
    IF ws # None THEN SendCall(c, ws, Forwarded(m))
    ELSE SendCall(c, c, [type |-> "error", target |-> m.target])

\* lines 99-104: forward to the target's websocket, or only log a warning
RelaySend(c, ws, m) ==
    IF ws # None THEN SendCall(c, ws, Forwarded(m)) ELSE NoSend

\* ------------------------------------------------- handle_client, 136-146
HostsAfterCleanup(hs, p) == IF p \in DOMAIN hs THEN DictDel(hs, p) ELSE hs

ClientsAfterCleanup(cs, p) == IF p \in DOMAIN cs THEN DictDel(cs, p) ELSE cs

\* a variant that clears the host field and forgets the client sets
RoomsAfterCleanupHostOnly(rs, p) ==
    [r \in DOMAIN rs |->
        [host |-> IF rs[r].host = p THEN None ELSE rs[r].host,
         clients |-> rs[r].clients]]

\* lines 143-146: every room is scanned
RoomsAfterCleanup(rs, p) ==
    [r \in DOMAIN rs |->
        [host |-> IF rs[r].host = p THEN None ELSE rs[r].host,
         clients |-> rs[r].clients \ {p}]]

\* lines 115-123: which branch of handle_client takes a message of type t
Dispatch(t) ==
    IF t = "register" THEN "register"
    ELSE IF t \in RelayTypes THEN "relay"
    ELSE "drop"

\* a variant that answers a dropped frame with an error message
DropSendWithError(c, m) == SendCall(c, c, [type |-> "error"])

\* lines 122-128: a frame that is unparseable or of unknown type is logged,
\* nothing is sent
DropSend(c, m) == NoSend

\* a variant that tells a client of the host's rooms that the host has gone
CleanupSendDisconnected(c, cs, rs, p) ==
    LET to == {x \in DOMAIN cs : \E r \in DOMAIN rs : rs[r].host = p /\ x \in rs[r].clients}
    IN  IF to = {} THEN NoSend
        ELSE LET x == CHOOSE y \in to : TRUE
             IN  SendCall(c, cs[x], UnknownFrame("host_disconnected", p, x))

\* lines 134-146: the finally block sends nothing
CleanupSend(c, cs, rs, p) == NoSend

\* a variant that hands out the newest buffered frame first
DequeueNewest(q) == [frame |-> q[Len(q)], rest |-> SubSeq(q, 1, Len(q) - 1)]

\* line 110: `async for message in websocket` hands out the buffered frames
\* oldest first
Dequeue(q) == [frame |-> Head(q), rest |-> Tail(q)]

\* ---------------------------------------------------------------- history
\* what stays of held[d] over a step: the host while it is still the room's
\* host and registered on the same websocket, the clients while they are
\* still members and registered on the same websockets
StillHeld(d) ==
    IF pc[d] \notin {"sent_registered", "notifying"} THEN NoneHeld
    ELSE LET r == room_id[d]
             h == held[d].host
         IN  [host |-> IF /\ h # None
                          /\ h \in DOMAIN hosts' /\ hosts'[h] = hosts[h]
                          /\ rooms'[r].host = h
                       THEN h ELSE None,
              clients |-> {x \in held[d].clients :
                              /\ x \in DOMAIN clients' /\ clients'[x] = clients[x]
                              /\ x \in rooms'[r].clients}]

\* the registered host and the registered clients of room r in the new state
HeldNow(r) ==
    [host |-> IF rooms'[r].host \in DOMAIN hosts' THEN rooms'[r].host ELSE None,
     clients |-> rooms'[r].clients \cap DOMAIN clients']

\* ---------------------------------------------------------------- actions
\* a peer opens a websocket; serve() starts handle_client for it
Connect(c) ==
    /\ conn[c] = "idle"
    /\ \A d \in Conns : ConnIdx[d] < ConnIdx[c] => conn[d] # "idle"
    /\ conn' = [conn EXCEPT ![c] = "open"]
    /\ pc' = [pc EXCEPT ![c] = "recv"]
    /\ out' = NoSend
    /\ UNCHANGED <<hosts, clients, rooms, inq, peer_id, room_id, host_id,
                   client_ids, todo, nframes, nsent, nids, regd, missed, fwd,
                   held, sent,
                   dropped>>

\* the peer of c sends a register frame, one of F
PeerSendRegister(c, F) ==
    /\ conn[c] = "open"
    /\ nframes < MaxFrames
    /\ Len(inq[c]) < MaxBuffered
    /\ \E m \in F :
          /\ Known(m.peer_id)
          /\ inq' = [inq EXCEPT ![c] = Append(@, m)]
          /\ nids' = Max(nids, PeerIdx[m.peer_id])
    /\ nframes' = nframes + 1
    /\ out' = NoSend
    /\ UNCHANGED <<hosts, clients, rooms, conn, pc, peer_id, room_id, host_id,
                   client_ids, todo, nsent, regd, missed, fwd, held,
                   sent,
                   dropped>>

\* the peer of c sends an offer, answer, ice_candidate or client_ready frame
PeerSendRelay(c) ==
    /\ conn[c] = "open"
    /\ nframes < MaxFrames
    /\ Len(inq[c]) < MaxBuffered
    /\ \E t \in RelayTypes, s \in PeerIds, g \in PeerIds :
          /\ Known(s) /\ Known(g)
          /\ inq' = [inq EXCEPT ![c] = Append(@, RelayFrame(t, s, g, nsent[c] + 1))]
          /\ nids' = Max(nids, Max(PeerIdx[s], PeerIdx[g]))
    /\ nsent' = [nsent EXCEPT ![c] = @ + 1]
    /\ nframes' = nframes + 1
    /\ out' = NoSend
    /\ UNCHANGED <<hosts, clients, rooms, conn, pc, peer_id, room_id, host_id,
                   client_ids, todo, regd, missed, fwd, held, sent,
                   dropped>>

\* the websocket of c closes (the peer leaves or the network fails)
Close(c) ==
    /\ conn[c] = "open"
    /\ conn' = [conn EXCEPT ![c] = "closed"]
    /\ out' = NoSend
    /\ UNCHANGED <<hosts, clients, rooms, inq, pc, peer_id, room_id, host_id,
                   client_ids, todo, nframes, nsent, nids, regd, missed, fwd,
                   held, sent,
                   dropped>>

\* handle_client reads a register frame: lines 115-117 and register_peer up
\* to the await of line 47.  When the send raises, the except of line 127
\* logs it and the loop goes on (notify_peers is not reached).
HandleRegister(c, hist) ==
    /\ pc[c] = "recv"
    /\ inq[c] # <<>>
    /\ Dequeue(inq[c]).frame.type = "register"
    /\ LET m == Dequeue(inq[c]).frame
           s == SendCall(c, c, RegisteredMsg(m))
       IN  /\ peer_id' = [peer_id EXCEPT ![c] = m.peer_id]
           /\ hosts' = HostsAfterRegister(hosts, c, m)
           /\ clients' = ClientsAfterRegister(clients, c, m)
           /\ rooms' = RoomsAfterRegister(rooms, m)
           /\ out' = s
           /\ pc' = [pc EXCEPT ![c] = IF s.ok THEN "sent_registered" ELSE "recv"]
           /\ room_id' = [room_id EXCEPT ![c] = IF s.ok THEN ResolveRoom(m) ELSE None]
           /\ IF hist
              THEN /\ regd' = [regd EXCEPT ![c] = @ \cup {<<m.peer_id, ResolveRoom(m)>>}]
                   /\ held' = [d \in Conns |->
                                  IF d # c THEN StillHeld(d)
                                  ELSE IF s.ok THEN HeldNow(ResolveRoom(m))
                                  ELSE NoneHeld]
              ELSE UNCHANGED <<regd, held>>
    /\ inq' = [inq EXCEPT ![c] = Dequeue(@).rest]
    /\ UNCHANGED <<conn, host_id, client_ids, todo, nframes, nsent, nids,
                   missed, fwd, sent,
                   dropped>>

\* notify_peers from a point of its client loop (lines 69-76) to its next
\* send, or through the host notice (lines 79-85) to its return.  `before`
\* are the ids the loop meets, and skips, ahead of the next registered client.
\* A send that raises ends the call: the except of line 127 logs it.
NotifyFrom(c, r, hid, cids, td, hist) ==
    LET reg == td \cap DOMAIN clients
    IN  \/ \E x \in reg, before \in SUBSET (td \ reg) :
             LET s == SendCall(c, clients[x], HostAvailableMsg(hid, r))
             IN  /\ out' = s
                 /\ pc' = [pc EXCEPT ![c] = IF s.ok THEN "notifying" ELSE "recv"]
                 /\ room_id' = [room_id EXCEPT ![c] = IF s.ok THEN r ELSE None]
                 /\ host_id' = [host_id EXCEPT ![c] = IF s.ok THEN hid ELSE None]
                 /\ client_ids' = [client_ids EXCEPT ![c] = IF s.ok THEN cids ELSE {}]
                 /\ todo' = [todo EXCEPT ![c] =
                                IF s.ok THEN td \ (before \cup {x}) ELSE {}]
                 /\ sent' = [sent EXCEPT ![c] =
                                IF s.ok /\ hist
                                THEN @ \cup {[to |-> s.to, msg |-> s.msg]}
                                ELSE {}]
                 /\ held' = [held EXCEPT ![c] = IF s.ok THEN @ ELSE NoneHeld]
        \/ /\ reg = {}
           /\ out' = IF HostToNotify(hid, hosts, cids)
                     THEN SendCall(c, hosts[hid], ClientsAvailableMsg(cids, r))
                     ELSE NoSend
           /\ pc' = [pc EXCEPT ![c] = "recv"]
           /\ room_id' = [room_id EXCEPT ![c] = None]
           /\ host_id' = [host_id EXCEPT ![c] = None]
           /\ client_ids' = [client_ids EXCEPT ![c] = {}]
           /\ todo' = [todo EXCEPT ![c] = {}]
           /\ sent' = [sent EXCEPT ![c] = {}]
           /\ held' = [held EXCEPT ![c] = NoneHeld]

\* register_peer resumes after line 47 and calls notify_peers (line 54),
\* which reads the room (lines 61-63) and tests the host once (line 68)
NotifyStart(c, hist) ==
    /\ pc[c] = "sent_registered"
    /\ LET r == room_id[c]
           hid == rooms[r].host
           cids == rooms[r].clients
       IN  NotifyFrom(c, r, hid, cids,
                      IF HostPresent(hid, hosts) THEN cids ELSE {}, hist)
    /\ UNCHANGED <<hosts, clients, rooms, conn, inq, peer_id, nframes, nsent,
                   nids, regd, missed, fwd,
                   dropped>>

\* notify_peers resumes after the send of line 72
NotifyResume(c, hist) ==
    /\ pc[c] = "notifying"
    /\ NotifyFrom(c, room_id[c], host_id[c], client_ids[c], todo[c], hist)
    /\ UNCHANGED <<hosts, clients, rooms, conn, inq, peer_id, nframes, nsent,
                   nids, regd, missed, fwd,
                   dropped>>

\* handle_client reads a relay frame: lines 119-120 and relay_message.  A
\* send that raises is logged by the except of line 127.
HandleRelay(c) ==
    /\ pc[c] = "recv"
    /\ inq[c] # <<>>
    /\ Dequeue(inq[c]).frame.type \in RelayTypes
    /\ LET m == Dequeue(inq[c]).frame
           ws == TargetWs(hosts, clients, m.target)
           s == RelaySend(c, ws, m)
       IN  /\ out' = s
           /\ missed' = IF ws = None THEN missed \cup {m.target} ELSE missed
           /\ fwd' = IF s.ok THEN [fwd EXCEPT ![c] = @ \cup {<<m.target, m.payload>>}]
                      ELSE fwd
    /\ inq' = [inq EXCEPT ![c] = Dequeue(@).rest]
    /\ UNCHANGED <<hosts, clients, rooms, conn, pc, peer_id, room_id, host_id,
                   client_ids, todo, nframes, nsent, nids, regd, held, sent,
                   dropped>>

\* the peer of c sends text that is no JSON, an object without type, or a
\* message of a type the server does not handle
PeerSendOther(c) ==
    /\ conn[c] = "open"
    /\ nframes < MaxFrames
    /\ Len(inq[c]) < MaxBuffered
    /\ \E m \in {Unparseable, NoType} \cup
                {UnknownFrame(t, s, g) : t \in UnknownTypes,
                                         s \in {x \in PeerIds : PeerIdx[x] <= nids},
                                         g \in {x \in PeerIds : PeerIdx[x] <= nids}} :
          inq' = [inq EXCEPT ![c] = Append(@, m)]
    /\ nframes' = nframes + 1
    /\ out' = NoSend
    /\ UNCHANGED <<hosts, clients, rooms, conn, pc, peer_id, room_id, host_id,
                   client_ids, todo, nsent, nids, regd, missed, fwd, dropped,
                   held, sent>>

\* handle_client reads a frame it drops: the except of line 125, or the else
\* of lines 122-123; the loop goes on
HandleOther(c) ==
    /\ pc[c] = "recv"
    /\ inq[c] # <<>>
    /\ Dispatch(Dequeue(inq[c]).frame.type) = "drop"
    /\ out' = DropSend(c, Dequeue(inq[c]).frame)
    /\ dropped' = [dropped EXCEPT ![c] = @ + 1]
    /\ inq' = [inq EXCEPT ![c] = Dequeue(@).rest]
    /\ UNCHANGED <<hosts, clients, rooms, conn, pc, peer_id, room_id, host_id,
                   client_ids, todo, nframes, nsent, nids, regd, missed, fwd,
                   held, sent>>

\* the websocket is closed and its buffer is empty: the loop of line 110
\* ends and the finally block of lines 134-146 runs
Cleanup(c, hist) ==
    /\ pc[c] = "recv"
    /\ inq[c] = <<>>
    /\ conn[c] = "closed"
    /\ pc' = [pc EXCEPT ![c] = "done"]
    /\ IF peer_id[c] # None
       THEN /\ hosts' = HostsAfterCleanup(hosts, peer_id[c])
            /\ clients' = ClientsAfterCleanup(clients, peer_id[c])
            /\ rooms' = RoomsAfterCleanup(rooms, peer_id[c])
       ELSE UNCHANGED <<hosts, clients, rooms>>
    /\ out' = CleanupSend(c, clients, rooms, peer_id[c])
    /\ held' = IF hist THEN [d \in Conns |-> StillHeld(d)] ELSE held
    /\ UNCHANGED <<conn, inq, peer_id, room_id, host_id, client_ids, todo,
                   nframes, nsent, nids, regd, missed, fwd, sent,
                   dropped>>

\* ---------------------------------------------------------- specifications
\* Spec: two connections, every register frame, no relay frames; the
\* history of registrations is kept.
Next ==
    \E c \in {"w1", "w2"} :
        \/ Connect(c) /\ UNCHANGED <<clVars, hoVars>>
        \/ PeerSendRegister(c, RegisterFrames) /\ UNCHANGED <<clVars, hoVars>>
        \/ Close(c) /\ UNCHANGED <<clVars, hoVars>>
        \/ HandleRegister(c, TRUE) /\ UNCHANGED <<clVars, hoVars>>
        \/ NotifyStart(c, TRUE) /\ UNCHANGED <<clVars, hoVars>>
        \/ NotifyResume(c, TRUE) /\ UNCHANGED <<clVars, hoVars>>
        \/ Cleanup(c, TRUE) /\ UNCHANGED <<clVars, hoVars>>

Spec == Init /\ [][Next]_vars

\* register frames of hosts and clients that carry no room_id
PlainFrames ==
    {m \in RegisterFrames : m.peer_type \in {"host", "client"} /\ m.room_id = Absent}

\* SpecRelay: two connections, plain register frames and relay frames.
NextRelay ==
    \E c \in {"w1", "w2"} :
        \/ Connect(c) /\ UNCHANGED <<clVars, hoVars>>
        \/ PeerSendRegister(c, PlainFrames) /\ UNCHANGED <<clVars, hoVars>>
        \/ PeerSendRelay(c) /\ UNCHANGED <<clVars, hoVars>>
        \/ Close(c) /\ UNCHANGED <<clVars, hoVars>>
        \/ HandleRegister(c, FALSE) /\ UNCHANGED <<clVars, hoVars>>
        \/ NotifyStart(c, FALSE) /\ UNCHANGED <<clVars, hoVars>>
        \/ NotifyResume(c, FALSE) /\ UNCHANGED <<clVars, hoVars>>
        \/ HandleRelay(c) /\ UNCHANGED <<clVars, hoVars>>
        \/ Cleanup(c, FALSE) /\ UNCHANGED <<clVars, hoVars>>

SpecRelay == Init /\ [][NextRelay]_vars

\* SpecRoom: three connections, plain register frames, no relay frames.
NextRoom ==
    \E c \in Conns :
        \/ Connect(c) /\ UNCHANGED <<clVars, hoVars>>
        \/ PeerSendRegister(c, PlainFrames) /\ UNCHANGED <<clVars, hoVars>>
        \/ Close(c) /\ UNCHANGED <<clVars, hoVars>>
        \/ HandleRegister(c, FALSE) /\ UNCHANGED <<clVars, hoVars>>
        \/ NotifyStart(c, FALSE) /\ UNCHANGED <<clVars, hoVars>>
        \/ NotifyResume(c, FALSE) /\ UNCHANGED <<clVars, hoVars>>
        \/ Cleanup(c, FALSE) /\ UNCHANGED <<clVars, hoVars>>

SpecRoom == Init /\ [][NextRoom]_vars

\* the rooms that list identity p as host or as a client
RoomsOf(p) == {r \in DOMAIN rooms : rooms[r].host = p \/ p \in rooms[r].clients}

\* a peer whose identity has left every room registers it again, as a
\* client of room r1
PeerRejoins(c) ==
    /\ conn[c] = "open"
    /\ nframes < MaxFrames + MaxRejoins
    /\ Len(inq[c]) < MaxBuffered
    /\ \E x \in PeerIds :
          /\ PeerIdx[x] <= nids
          /\ RoomsOf(x) = {}
          /\ inq' = [inq EXCEPT ![c] =
                        Append(@, [type |-> "register", peer_type |-> "client",
                                   peer_id |-> x, room_id |-> "r1"])]
    /\ nframes' = nframes + 1
    /\ out' = NoSend
    /\ UNCHANGED <<hosts, clients, rooms, conn, pc, peer_id, room_id, host_id,
                   client_ids, todo, nsent, nids, regd, missed, fwd, held,
                   sent, dropped>>

\* the register frame of the peer on connection c: the host p1 on w1, the
\* clients p2 and p3 on w2 and w3, without room_id
ScopeFrames(c) ==
    {m \in PlainFrames : /\ PeerIdx[m.peer_id] = ConnIdx[c]
                         /\ (m.peer_type = "host") = (m.peer_id = "p1")}

\* SpecScope: three connections, a host and two clients that register into
\* the room "default", and identities that come back into room r1.
NextScope ==
    \E c \in Conns :
        \/ Connect(c) /\ UNCHANGED <<clVars, hoVars>>
        \/ PeerSendRegister(c, ScopeFrames(c)) /\ UNCHANGED <<clVars, hoVars>>
        \/ PeerRejoins(c) /\ UNCHANGED <<clVars, hoVars>>
        \/ Close(c) /\ UNCHANGED <<clVars, hoVars>>
        \/ HandleRegister(c, FALSE) /\ UNCHANGED <<clVars, hoVars>>
        \/ NotifyStart(c, FALSE) /\ UNCHANGED <<clVars, hoVars>>
        \/ NotifyResume(c, FALSE) /\ UNCHANGED <<clVars, hoVars>>
        \/ Cleanup(c, FALSE) /\ UNCHANGED <<clVars, hoVars>>

SpecScope == Init /\ [][NextScope]_vars

\* SpecOther: two connections, plain register frames, relay frames and
\* frames the server drops.
NextOther ==
    \E c \in {"w1", "w2"} :
        \/ Connect(c) /\ UNCHANGED <<clVars, hoVars>>
        \/ PeerSendRegister(c, PlainFrames) /\ UNCHANGED <<clVars, hoVars>>
        \/ PeerSendRelay(c) /\ UNCHANGED <<clVars, hoVars>>
        \/ PeerSendOther(c) /\ UNCHANGED <<clVars, hoVars>>
        \/ Close(c) /\ UNCHANGED <<clVars, hoVars>>
        \/ HandleRegister(c, FALSE) /\ UNCHANGED <<clVars, hoVars>>
        \/ NotifyStart(c, FALSE) /\ UNCHANGED <<clVars, hoVars>>
        \/ NotifyResume(c, FALSE) /\ UNCHANGED <<clVars, hoVars>>
        \/ HandleRelay(c) /\ UNCHANGED <<clVars, hoVars>>
        \/ HandleOther(c) /\ UNCHANGED <<clVars, hoVars>>
        \/ Cleanup(c, FALSE) /\ UNCHANGED <<clVars, hoVars>>

SpecOther == Init /\ [][NextOther]_vars

\* ======================================================================
\* The client program, webrtc_client.py
\* ======================================================================
\* lines 59-64: the register frame of connect_signaling (the room of the
\* constructor's default argument)
ClientRegisterFrame ==
    [type |-> "register", peer_type |-> "client", peer_id |-> ClientId,
     room_id |-> "default"]

\* a variant with sender and target exchanged
ClientReadyMsgSwapped(h) == RelayFrame("client_ready", h, ClientId, 0)

\* lines 324-328
ClientReadyMsg(h) == RelayFrame("client_ready", ClientId, h, 0)

\* a variant that addresses the answer to the client itself
AnswerMsgToSelf(h) == RelayFrame("answer", ClientId, ClientId, 0)

\* lines 273-281: the answer goes to self.host_id
AnswerMsg(h) == RelayFrame("answer", ClientId, h, 0)

\* line 92: the next RTCPeerConnection object
NewPc == 1 + Cardinality({i \in PcIds : pcs[i].state # "none"})

\* RTCPeerConnection.close() on pc i
Closed(ps, i) == [ps EXCEPT ![i].state = "closed"]

\* a variant that ends the program whenever the signaling loop is left
AfterSignalingStop(connected) == "stopped"

\* lines 389-393: when handle_signaling_messages has returned, start_client
\* goes on to run_p2p_session if the engine is connected and to cleanup if not
AfterSignaling(connected) == IF connected THEN "p2p" ELSE "stopped"

\* lines 352-354: after a handled message the loop is left when the engine
\* is connected
AfterMessage(connected) == IF connected THEN AfterSignaling(connected) ELSE "signaling"

\* lines 409-424: the loop of run_p2p_session ends when the engine is no
\* longer connected or the display has stopped
P2PEnds(run, connected, ws) == ~run \/ ~connected

\* lines 434 and 405: the monitor task listens only on an open websocket
MonitorAfterStart(ws) == IF ws = "open" THEN "on" ELSE "ended"

\* a variant in which an error leaves the signaling loop
AfterErrorLeaves(p) == "p2p"

\* lines 358-359: an exception raised while a message is handled is logged
\* and the loop goes on
AfterError(p) == p

\* one more scheduled callback, or the same number when close() removed the
\* listeners before the state change was emitted
AfterClose(n) == {n} \cup {k \in {n + 1} : k <= MaxEvents}

\* cleanup(), lines 458-483, as the last step of start_client
ClientCleanup ==
    /\ cpc' = "stopped"
    /\ running' = FALSE
    /\ pcs' = IF peer_connection # NoPc THEN Closed(pcs, peer_connection) ELSE pcs
    /\ peer_connection' = NoPc
    /\ websocket' = IF websocket = "open" THEN "closed_ok" ELSE websocket
    /\ monitor' = IF monitor = "on" THEN "ended" ELSE monitor

\* the program moves to position p; at "stopped" cleanup runs, at "p2p" the
\* monitor task is created (line 405)
ClientGoto(p) ==
    IF p = "stopped" THEN ClientCleanup
    ELSE /\ cpc' = p
         /\ monitor' = IF p = "p2p" THEN MonitorAfterStart(websocket) ELSE monitor
         /\ UNCHANGED <<running, pcs, peer_connection, websocket>>

\* connect_signaling, lines 54-70: the websocket opens and the register frame
\* is written, or the connection fails and start_client returns (line 382)
ClientStart ==
    /\ cpc = "start"
    /\ \/ /\ websocket' = "open"
          /\ cout' = Append(cout, ClientRegisterFrame)
          /\ cpc' = "signaling"
       \/ /\ cpc' = "stopped"
          /\ UNCHANGED <<websocket, cout>>
    /\ UNCHANGED <<cin, peer_connection, cl_host_id, webrtc_connected,
                   signaling_needed, running, pcs, events, tracks, monitor,
                   quit, timeouts, unanswered, ndelivered, noticed, readied>>

\* the rendezvous channel closes, with a close frame or without
ChannelClose ==
    /\ websocket = "open"
    /\ websocket' \in {"closed_ok", "closed_error"}
    /\ UNCHANGED <<cin, cout, cpc, peer_connection, cl_host_id,
                   webrtc_connected, signaling_needed, running, pcs, events,
                   tracks, monitor, quit, timeouts,
                   unanswered, ndelivered, noticed, readied>>

\* lines 308-309 and 348-349: registered and unknown types are logged; a
\* message json.loads rejects skips the test of line 352 as well
ClientLog ==
    /\ cpc = "signaling" /\ cin # <<>>
    /\ Head(cin).type \notin {"host_available", "offer", "ice_candidate",
                              "host_disconnected"}
    /\ cin' = Tail(cin)
    /\ ClientGoto(IF Head(cin) = Unparseable THEN "signaling"
                  ELSE AfterMessage(webrtc_connected))
    /\ UNCHANGED <<cout, cl_host_id, webrtc_connected, signaling_needed,
                   events, tracks, quit, timeouts,
                   unanswered, ndelivered, noticed, readied>>

\* create_peer_connection from line 92 and the send of lines 324-328.  A send
\* on a closed websocket raises: the except of line 358 logs it and the loop
\* goes on.
NewPcAndReady(h) ==
    /\ peer_connection' = NewPc
    /\ pcs' = [pcs EXCEPT ![NewPc] = [state |-> "new", remote |-> None]]
    /\ IF websocket = "open"
       THEN /\ cout' = Append(cout, ClientReadyMsg(h))
            /\ readied' = readied + 1
            /\ cpc' = AfterMessage(webrtc_connected)
            /\ monitor' = IF cpc' = "p2p" THEN MonitorAfterStart(websocket)
                          ELSE monitor
       ELSE /\ cpc' = "signaling"
            /\ UNCHANGED <<cout, readied, monitor>>

\* lines 311-321: host_available; an existing connection is closed first
\* (lines 86-90), which suspends the handler
ClientHostAvailable ==
    /\ cpc = "signaling" /\ cin # <<>>
    /\ Head(cin).type = "host_available"
    /\ cin' = Tail(cin)
    /\ running' = FALSE
    /\ cl_host_id' = Head(cin).host_id
    /\ noticed' = IF websocket = "open" THEN noticed + 1 ELSE noticed
    /\ IF peer_connection # NoPc
       THEN /\ pcs' = Closed(pcs, peer_connection)
            /\ events' \in AfterClose(events)
            /\ cpc' = "ha_closing"
            /\ UNCHANGED <<peer_connection, cout, readied, monitor>>
       ELSE /\ NewPcAndReady(Head(cin).host_id)
            /\ UNCHANGED events
    /\ UNCHANGED <<websocket, webrtc_connected, signaling_needed, tracks,
                   quit, timeouts, unanswered, ndelivered>>

\* close() has returned: line 92 and lines 324-354
ClientHostAvailableResume ==
    /\ cpc = "ha_closing"
    /\ NewPcAndReady(cl_host_id)
    /\ UNCHANGED <<websocket, cin, cl_host_id, webrtc_connected,
                   signaling_needed, running, events, tracks, quit, timeouts, unanswered,
                   ndelivered, noticed>>

\* handle_offer, lines 252-283, and lines 331-334.  Without a connection
\* line 258 raises AttributeError, on a closed one the engine raises; the
\* except of line 358 logs either.  The remote description brings the
\* host's video track: on_track (lines 109-115) creates the task
\* receive_video_frames, which starts at the next await of handle_offer and
\* sets self.running (lines 156-157).
ClientOffer ==
    /\ cpc = "signaling" /\ cin # <<>>
    /\ Head(cin).type = "offer"
    /\ cin' = Tail(cin)
    /\ IF peer_connection = NoPc \/ pcs[peer_connection].state = "closed"
       THEN /\ cpc' = AfterError(cpc)
            /\ UNCHANGED <<pcs, tracks, running, cout, monitor>>
       ELSE /\ pcs' = [pcs EXCEPT ![peer_connection].remote = Head(cin).sender]
            /\ tracks' = [tracks EXCEPT ![peer_connection] =
                             IF @ = "none" THEN "live" ELSE @]
            /\ running' = IF tracks[peer_connection] = "none" THEN TRUE
                           ELSE running
            /\ IF websocket = "open"
               THEN /\ cout' = Append(cout, AnswerMsg(cl_host_id))
                    /\ cpc' = AfterMessage(webrtc_connected)
                    /\ monitor' = IF cpc' = "p2p" THEN MonitorAfterStart(websocket)
                                  ELSE monitor
               ELSE UNCHANGED <<cout, cpc, monitor>>
    /\ unanswered' = (unanswered \/ peer_connection = NoPc)
    /\ UNCHANGED <<websocket, peer_connection, cl_host_id, webrtc_connected,
                   signaling_needed, events, quit, timeouts, ndelivered,
                   noticed, readied>>

\* handle_ice_candidate, lines 287-298: the candidate is handed to the engine
ClientIceCandidate ==
    /\ cpc = "signaling" /\ cin # <<>>
    /\ Head(cin).type = "ice_candidate"
    /\ cin' = Tail(cin)
    /\ ClientGoto(AfterMessage(webrtc_connected))
    /\ UNCHANGED <<cout, cl_host_id, webrtc_connected, signaling_needed,
                   events, tracks, quit, timeouts,
                   unanswered, ndelivered, noticed, readied>>

\* lines 345-354, the end of the host_disconnected branch
ForgetHost ==
    /\ peer_connection' = NoPc
    /\ cl_host_id' = None
    /\ running' = FALSE
    /\ IF AfterMessage(webrtc_connected) = "p2p"
       THEN /\ cpc' = "p2p" /\ monitor' = MonitorAfterStart(websocket)
       ELSE /\ cpc' = "signaling" /\ UNCHANGED monitor

\* lines 339-344: host_disconnected; an existing connection is closed first
ClientHostDisconnected ==
    /\ cpc = "signaling" /\ cin # <<>>
    /\ Head(cin).type = "host_disconnected"
    /\ cin' = Tail(cin)
    /\ IF peer_connection # NoPc
       THEN /\ pcs' = Closed(pcs, peer_connection)
            /\ events' \in AfterClose(events)
            /\ cpc' = "hd_closing"
            /\ UNCHANGED <<peer_connection, cl_host_id, running, monitor>>
       ELSE /\ ForgetHost
            /\ UNCHANGED <<pcs, events>>
    /\ UNCHANGED <<websocket, cout, webrtc_connected, signaling_needed,
                   tracks, quit, timeouts,
                   unanswered, ndelivered, noticed, readied>>

ClientHostDisconnectedResume ==
    /\ cpc = "hd_closing"
    /\ ForgetHost
    /\ UNCHANGED <<websocket, cin, cout, webrtc_connected, signaling_needed,
                   pcs, events, tracks, quit, timeouts,
                   unanswered, ndelivered, noticed, readied>>

\* the websocket is closed and every received message has been read: the
\* loop of line 303 ends (normally, or by the ConnectionClosed of line 361)
\* and start_client goes on at line 389
ClientLoopEnd ==
    /\ cpc = "signaling" /\ cin = <<>>
    /\ websocket \in {"closed_ok", "closed_error"}
    /\ ClientGoto(AfterSignaling(webrtc_connected))
    /\ UNCHANGED <<cin, cout, cl_host_id, webrtc_connected, signaling_needed,
                   events, tracks, quit, timeouts,
                   unanswered, ndelivered, noticed, readied>>

\* run_p2p_session wakes up (line 410) and leaves its loop; the monitor task
\* is cancelled and cleanup runs
ClientP2PEnd ==
    /\ cpc = "p2p"
    /\ P2PEnds(running, webrtc_connected, websocket)
    /\ ClientCleanup
    /\ UNCHANGED <<cin, cout, cl_host_id, webrtc_connected, signaling_needed,
                   events, tracks, quit, timeouts,
                   unanswered, ndelivered, noticed, readied>>

\* monitor_signaling_connection, lines 437-450: every message is only logged
ClientMonitorRead ==
    /\ cpc = "p2p" /\ monitor = "on" /\ cin # <<>>
    /\ cin' = Tail(cin)
    /\ noticed' = IF Head(cin).type = "host_available" /\ websocket = "open"
                  THEN noticed + 1 ELSE noticed
    /\ UNCHANGED <<websocket, cout, cpc, peer_connection, cl_host_id,
                   webrtc_connected, signaling_needed, running, pcs, events,
                   tracks, monitor, quit, timeouts,
                   unanswered, ndelivered, readied>>

\* lines 451-452: the websocket has closed under the monitor task
ClientMonitorEnd ==
    /\ cpc = "p2p" /\ monitor = "on" /\ cin = <<>>
    /\ websocket \in {"closed_ok", "closed_error"}
    /\ monitor' = "ended"
    /\ UNCHANGED <<websocket, cin, cout, cpc, peer_connection, cl_host_id,
                   webrtc_connected, signaling_needed, running, pcs, events,
                   tracks, quit, timeouts,
                   unanswered, ndelivered, noticed, readied>>

\* the engine changes the connectionState of an open connection and
\* schedules on_connectionstatechange
EngineChange(i) ==
    /\ cpc # "stopped"
    /\ events < MaxEvents
    /\ \/ pcs[i].state = "new" /\ pcs[i].remote # None
          /\ pcs' = [pcs EXCEPT ![i].state = "connecting"]
       \/ pcs[i].state = "connecting"
          /\ \E st \in {"connected", "failed"} : pcs' = [pcs EXCEPT ![i].state = st]
       \/ pcs[i].state = "connected"
          /\ \E st \in {"disconnected", "failed"} : pcs' = [pcs EXCEPT ![i].state = st]
    /\ events' = events + 1
    /\ UNCHANGED <<websocket, cin, cout, cpc, peer_connection, cl_host_id,
                   webrtc_connected, signaling_needed, running, tracks,
                   monitor, quit, timeouts,
                   unanswered, ndelivered, noticed, readied>>

\* on_connectionstatechange, lines 94-107, reads the state of whatever
\* self.peer_connection is when it runs
ClientEvent ==
    /\ cpc # "stopped"
    /\ events > 0
    /\ events' = events - 1
    /\ LET st == IF peer_connection = NoPc THEN None
                 ELSE pcs[peer_connection].state
       IN  /\ webrtc_connected' = IF st = "connected" THEN TRUE
                                  ELSE IF st \in Terminal THEN FALSE
                                  ELSE webrtc_connected
           /\ signaling_needed' = IF st = "connected" THEN FALSE
                                  ELSE signaling_needed
           /\ running' = IF st \in Terminal THEN FALSE ELSE running
    /\ UNCHANGED <<websocket, cin, cout, cpc, peer_connection, cl_host_id,
                   pcs, tracks, monitor, quit, timeouts,
                   unanswered, ndelivered, noticed, readied>>

\* receive_video_frames ends, lines 170-191: track.recv() raises once the
\* connection is closed, or the loop sees self.running cleared
ClientReceiveEnd(i) ==
    /\ cpc # "stopped"
    /\ tracks[i] = "live"
    /\ pcs[i].state = "closed" \/ ~running
    /\ tracks' = [tracks EXCEPT ![i] = "ended"]
    /\ running' = FALSE
    /\ UNCHANGED <<websocket, cin, cout, cpc, peer_connection, cl_host_id,
                   webrtc_connected, signaling_needed, pcs, events, monitor,
                   quit, timeouts, unanswered, ndelivered, noticed, readied>>

\* display_frames, lines 230-233: the user presses Q or ESC
UserQuit ==
    /\ cpc # "stopped"
    /\ running /\ ~quit
    /\ quit' = TRUE
    /\ running' = FALSE
    /\ UNCHANGED <<websocket, cin, cout, cpc, peer_connection, cl_host_id,
                   webrtc_connected, signaling_needed, pcs, events, tracks,
                   monitor, timeouts,
                   unanswered, ndelivered, noticed, readied>>

\* what the rendezvous channel may bring the client
ClientInbound ==
    {[type |-> "registered", peer_id |-> ClientId, room_id |-> "default"]}
    \cup {HostAvailableMsg(h, "default") : h \in HostIds}
    \cup {RelayFrame(t, h, ClientId, 0) : t \in {"offer", "ice_candidate"},
                                         h \in HostIds}
    \cup {UnknownFrame("host_disconnected", h, ClientId) : h \in HostIds}

\* the environment delivers a message of M to the client
ChannelDeliver(M) ==
    /\ websocket = "open"
    /\ ndelivered < MaxInbound
    /\ \E m \in M : cin' = Append(cin, m)
    /\ ndelivered' = ndelivered + 1
    /\ UNCHANGED <<websocket, cout, cpc, peer_connection, cl_host_id,
                   webrtc_connected, signaling_needed, running, pcs, events,
                   tracks, monitor, quit, timeouts,
                   unanswered, noticed, readied>>

\* SpecClient: the client program alone; the environment plays the
\* rendezvous channel.
NextClient ==
    \/ ClientStart /\ UNCHANGED <<srvVars, hoVars>>
    \/ ClientLog /\ UNCHANGED <<srvVars, hoVars>>
    \/ ClientHostAvailable /\ UNCHANGED <<srvVars, hoVars>>
    \/ ClientHostAvailableResume /\ UNCHANGED <<srvVars, hoVars>>
    \/ ClientOffer /\ UNCHANGED <<srvVars, hoVars>>
    \/ ClientIceCandidate /\ UNCHANGED <<srvVars, hoVars>>
    \/ ClientHostDisconnected /\ UNCHANGED <<srvVars, hoVars>>
    \/ ClientHostDisconnectedResume /\ UNCHANGED <<srvVars, hoVars>>
    \/ ClientLoopEnd /\ UNCHANGED <<srvVars, hoVars>>
    \/ ClientP2PEnd /\ UNCHANGED <<srvVars, hoVars>>
    \/ ClientMonitorRead /\ UNCHANGED <<srvVars, hoVars>>
    \/ ClientMonitorEnd /\ UNCHANGED <<srvVars, hoVars>>
    \/ \E i \in PcIds : EngineChange(i) /\ UNCHANGED <<srvVars, hoVars>>
    \/ ClientEvent /\ UNCHANGED <<srvVars, hoVars>>
    \/ \E i \in PcIds : ClientReceiveEnd(i) /\ UNCHANGED <<srvVars, hoVars>>
    \/ UserQuit /\ UNCHANGED <<srvVars, hoVars>>
    \/ ChannelDeliver(ClientInbound) /\ UNCHANGED <<srvVars, hoVars>>
    \/ ChannelClose /\ UNCHANGED <<srvVars, hoVars>>

SpecClient == Init /\ [][NextClient]_vars

\* lines 121-130
ClientCandidateMsg(h) == RelayFrame("ice_candidate", ClientId, h, 0)

\* a variant that does not look at signaling_needed
CandidateSentAlways(h, needed) == h # None

\* line 119: a candidate is sent when a host is known and the rendezvous
\* channel is still needed
CandidateSent(h, needed) == h # None /\ needed

\* the ice_candidate frames among the frames written
Candidates(q) == {k \in 1..Len(q) : q[k].type = "ice_candidate"}

\* on_icecandidate, lines 117-132: the engine of connection i, which has
\* its local description, hands over a candidate; a send on a closed
\* websocket raises and is logged
ClientIceEvent(i) ==
    /\ cpc # "stopped"
    /\ pcs[i].state \in {"new", "connecting", "connected"}
    /\ pcs[i].remote # None
    /\ Cardinality(Candidates(cout)) < MaxCandidates
    /\ cout' = IF CandidateSent(cl_host_id, signaling_needed) /\ websocket = "open"
               THEN Append(cout, ClientCandidateMsg(cl_host_id))
               ELSE cout
    /\ UNCHANGED <<websocket, cin, cpc, peer_connection, cl_host_id,
                   webrtc_connected, signaling_needed, running, pcs, events,
                   tracks, monitor, quit, timeouts,
                   unanswered, ndelivered, noticed, readied>>

\* SpecClientIce: the client program with the candidates of its engine
NextClientIce ==
    \/ NextClient
    \/ \E i \in PcIds : ClientIceEvent(i) /\ UNCHANGED <<srvVars, hoVars>>

SpecClientIce == Init /\ [][NextClientIce]_vars

\* the event loop runs every task that is ready: the signaling loop handles
\* a received message, an awaited close() returns, the sleep of
\* run_p2p_session ends, a scheduled callback runs.  Nothing is assumed of
\* the channel, the engine or the user.
ClientFairness ==
    /\ WF_vars(ClientLog /\ UNCHANGED <<srvVars, hoVars>>)
    /\ WF_vars(ClientHostAvailable /\ UNCHANGED <<srvVars, hoVars>>)
    /\ WF_vars(ClientHostAvailableResume /\ UNCHANGED <<srvVars, hoVars>>)
    /\ WF_vars(ClientOffer /\ UNCHANGED <<srvVars, hoVars>>)
    /\ WF_vars(ClientIceCandidate /\ UNCHANGED <<srvVars, hoVars>>)
    /\ WF_vars(ClientHostDisconnected /\ UNCHANGED <<srvVars, hoVars>>)
    /\ WF_vars(ClientHostDisconnectedResume /\ UNCHANGED <<srvVars, hoVars>>)
    /\ WF_vars(ClientLoopEnd /\ UNCHANGED <<srvVars, hoVars>>)
    /\ WF_vars(ClientP2PEnd /\ UNCHANGED <<srvVars, hoVars>>)
    /\ WF_vars(ClientEvent /\ UNCHANGED <<srvVars, hoVars>>)

SpecClientFair == SpecClient /\ ClientFairness

\* lines 331-334: a check_streaming_timeout task is created after every
\* handle_offer that returned, that is after every answer written
TimeoutTasks(q) == Cardinality({k \in 1..Len(q) : q[k].type = "answer"})

\* a variant in which the watchdog stops the display
RunningAfterTimeoutStops(run) == FALSE

\* lines 489-491: the watchdog only writes to the log
RunningAfterTimeout(run) == run

\* check_streaming_timeout, lines 485-491: the sleep of a watchdog task ends
\* while the program is running
ClientStreamingTimeout ==
    /\ cpc # "stopped"
    /\ timeouts < TimeoutTasks(cout)
    /\ timeouts' = timeouts + 1
    /\ running' = RunningAfterTimeout(running)
    /\ UNCHANGED <<websocket, cin, cout, cpc, peer_connection, cl_host_id,
                   webrtc_connected, signaling_needed, pcs, events, tracks,
                   monitor, quit, unanswered, ndelivered, noticed, readied>>

\* SpecWatchdog: the client program with its watchdog tasks
NextWatchdog ==
    \/ NextClient
    \/ ClientStreamingTimeout /\ UNCHANGED <<srvVars, hoVars>>

SpecWatchdog == Init /\ [][NextWatchdog]_vars

\* ======================================================================
\* One session: the server, the client program on websocket w2, and a host
\* played by the environment on websocket w1.  The host's connection may
\* drop; the client's stays up until the client closes it.
\* ======================================================================
\* the websocket of the client program, and that of the host
ClientConn == "w2"

HostConn == "w1"

\* the register frame of a host (webrtc_host.py, lines 102-107) with the
\* id p1
HostRegisterFrames ==
    {m \in RegisterFrames :
        m.peer_type = "host" /\ m.peer_id = "p1" /\ m.room_id = Absent}

\* the host sends the client an offer or an ice_candidate (webrtc_host.py,
\* lines 205-213 and 154-163)
HostSendsToClient ==
    /\ conn[HostConn] = "open"
    /\ nframes < MaxFrames
    /\ Len(inq[HostConn]) < MaxBuffered
    /\ \E t \in {"offer", "ice_candidate"} :
          inq' = [inq EXCEPT ![HostConn] =
                     Append(@, RelayFrame(t, "p1", ClientId, nsent[HostConn] + 1))]
    /\ nsent' = [nsent EXCEPT ![HostConn] = @ + 1]
    /\ nframes' = nframes + 1
    /\ out' = NoSend
    /\ UNCHANGED <<hosts, clients, rooms, conn, pc, peer_id, room_id, host_id,
                   client_ids, todo, nids, regd, missed, fwd, dropped, held,
                   sent>>

\* a frame the server has written to the client's websocket arrives in the
\* client's receive buffer
ToClient ==
    /\ cin' = IF out'.ok /\ out'.to = ClientConn THEN Append(cin, out'.msg)
              ELSE cin
    /\ UNCHANGED <<websocket, cout, cpc, peer_connection, cl_host_id,
                   webrtc_connected, signaling_needed, running, pcs, events,
                   tracks, monitor, quit, timeouts,
                   unanswered, ndelivered, noticed, readied>>
    /\ UNCHANGED hoVars

\* the frames the client writes in a step arrive in the receive buffer of
\* its handler; the server sees the client's websocket open and close
FromClient ==
    /\ inq' = [inq EXCEPT ![ClientConn] =
                  @ \o SubSeq(cout', Len(cout) + 1, Len(cout'))]
    /\ conn' = [conn EXCEPT ![ClientConn] =
                   IF websocket' = websocket THEN @
                   ELSE IF websocket' = "open" THEN "open" ELSE "closed"]
    /\ pc' = [pc EXCEPT ![ClientConn] =
                 IF websocket' # websocket /\ websocket' = "open" THEN "recv"
                 ELSE @]
    /\ out' = NoSend
    /\ UNCHANGED <<hosts, clients, rooms, peer_id, room_id, host_id,
                   client_ids, todo, nframes, nsent, nids, regd, missed, fwd,
                   dropped, held, sent>>
    /\ UNCHANGED hoVars

NextSession ==
    \/ Connect(HostConn) /\ UNCHANGED <<clVars, hoVars>>
    \/ PeerSendRegister(HostConn, HostRegisterFrames) /\ UNCHANGED <<clVars, hoVars>>
    \/ HostSendsToClient /\ UNCHANGED <<clVars, hoVars>>
    \/ Close(HostConn) /\ UNCHANGED <<clVars, hoVars>>
    \/ \E c \in {HostConn, ClientConn} :
          \/ HandleRegister(c, FALSE) /\ ToClient
          \/ NotifyStart(c, FALSE) /\ ToClient
          \/ NotifyResume(c, FALSE) /\ ToClient
          \/ HandleRelay(c) /\ ToClient
          \/ Cleanup(c, FALSE) /\ ToClient
    \/ ClientStart /\ FromClient
    \/ ClientLog /\ FromClient
    \/ ClientHostAvailable /\ FromClient
    \/ ClientHostAvailableResume /\ FromClient
    \/ ClientOffer /\ FromClient
    \/ ClientIceCandidate /\ FromClient
    \/ ClientP2PEnd /\ FromClient
    \/ ClientMonitorRead /\ FromClient
    \/ \E i \in PcIds : EngineChange(i) /\ FromClient
    \/ ClientEvent /\ FromClient
    \/ \E i \in PcIds : ClientReceiveEnd(i) /\ FromClient

SpecSession == Init /\ [][NextSession]_vars

\* ======================================================================
\* The host program, webrtc_host.py
\* ======================================================================
\* lines 205-213
OfferMsg(c) == RelayFrame("offer", HostId, c, 0)

\* a variant that uses the connection created last again
LastHostPc == Max(1, Cardinality({i \in HostPcIds : hpcs[i].state # "none"}))

\* line 116: the next RTCPeerConnection object of the host
NewHostPc == 1 + Cardinality({i \in HostPcIds : hpcs[i].state # "none"})

\* the clients that have an entry in self.peer_connections
Sessions(pcmap) == {c \in ClientIds : pcmap[c] # NoPc}

\* lines 273-281: the sweep drops the entries whose connection has ended
Swept(pcmap, ps) ==
    [c \in ClientIds |->
        IF pcmap[c] # NoPc /\ ps[pcmap[c]].state \in Terminal THEN NoPc
        ELSE pcmap[c]]

\* lines 348-356: the finally block of start_host closes every connection
\* of the mapping
AllClosed(pcmap, ps) ==
    [i \in HostPcIds |->
        IF \E c \in ClientIds : pcmap[c] = i
        THEN [ps[i] EXCEPT !.state = "closed"] ELSE ps[i]]

\* lines 291 and 323-332: the loop of handle_signaling_messages ends
\* normally when the websocket closed with a close frame, and start_host goes
\* to its finally block; the ConnectionClosed of an unclean close is caught
\* and run_p2p_mode is entered when the mapping has entries
AfterHostLoop(ws, pcmap) ==
    IF ws = "closed_error" /\ Sessions(pcmap) # {} THEN "p2p" ELSE "stopped"

\* the finally block of start_host, lines 348-364
HostShutdown(pcmap) ==
    /\ hpc' = "stopped"
    /\ hpcs' = AllClosed(pcmap, hpcs)
    /\ hws' = IF hws = "open" THEN "closed_ok" ELSE hws

\* lines 102-107: the register frame of connect_signaling
HostRegisterMsg ==
    [type |-> "register", peer_type |-> "host", peer_id |-> HostId,
     room_id |-> "default"]

\* a variant that applies an answer to the connection created last
AnswerTargetNewest(pcmap, c) ==
    IF pcmap[c] = NoPc THEN NoPc
    ELSE CHOOSE i \in HostPcIds :
            /\ \E d \in ClientIds : pcmap[d] = i
            /\ \A d \in ClientIds : pcmap[d] <= i

\* lines 224-225: the connection an answer of client c is applied to
AnswerTarget(pcmap, c) == pcmap[c]

\* a variant that closes the oldest connection of the mapping
EventTargetOldest(pcmap, c, i) ==
    CHOOSE k \in HostPcIds :
        /\ \E d \in ClientIds : pcmap[d] = k
        /\ \A d \in ClientIds : pcmap[d] # NoPc => k <= pcmap[d]

\* line 145: the connection on_connectionstatechange of connection i closes
EventTarget(pcmap, c, i) == pcmap[c]

\* a variant that leaves a disconnected connection alone
CleansUpUnlessDisconnected(st) == st \in {"closed", "failed"}

\* line 141: the states in which on_connectionstatechange cleans up
CleansUp(st) == st \in Terminal

\* RTCPeerConnection.close() (lines 145 and 254) returns at once on a
\* connection that is closed; on any other it suspends the caller
CloseSuspends(ps, i) == ps[i].state # "closed"

\* the scheduled callbacks after close() of connection i: the state change
\* to closed is announced, or the listeners were removed before
HostAfterClose(ev, i) == {ev, ev \cup {i}}

\* the connectionState values the engine moves a connection to
EngineStates == {"connecting", "connected", "failed", "disconnected"}

\* connect_signaling, lines 95-112
HostStart ==
    /\ hpc = "start"
    /\ \/ /\ hws' = "open"
          /\ hout' = Append(hout, HostRegisterMsg)
          /\ hpc' = "signaling"
       \/ /\ hpc' = "stopped"
          /\ UNCHANGED <<hws, hout>>
    /\ UNCHANGED <<hin, peer_connections, hpcs, hevents, hclosing, hcd,
                   engine_failed, hdelivered, hprior>>

\* the host's rendezvous channel closes, with a close frame or without
HostChannelClose ==
    /\ hws = "open"
    /\ hws' \in {"closed_ok", "closed_error"}
    /\ UNCHANGED <<hin, hout, hpc, peer_connections, hpcs, hevents, hclosing,
                   hcd, engine_failed, hdelivered, hprior>>

\* lines 296-301 and 315-319: registered, clients_available, unknown types
\* and invalid JSON are logged
HostLog ==
    /\ hpc = "signaling" /\ hin # <<>>
    /\ Head(hin).type \notin {"client_ready", "answer", "ice_candidate",
                              "client_disconnected"}
    /\ hin' = Tail(hin)
    /\ engine_failed' = None
    /\ UNCHANGED <<hws, hout, hpc, peer_connections, hpcs, hevents, hclosing,
                   hcd, hdelivered, hprior>>

\* handle_client_ready, lines 187-215: a new connection is stored under the
\* sender's id (lines 116-117); the engine produces the offer (lines
\* 196-197) or raises, and the offer is sent; an engine error and a send on
\* a closed websocket are logged by line 320
HostClientReady(Oks) ==
    /\ hpc = "signaling" /\ hin # <<>>
    /\ Head(hin).type = "client_ready"
    /\ hin' = Tail(hin)
    /\ LET c == Head(hin).sender
       IN  /\ peer_connections' = [peer_connections EXCEPT ![c] = NewHostPc]
           /\ hpcs' = [hpcs EXCEPT ![NewHostPc] =
                          [state |-> "new", owner |-> c, remote |-> FALSE]]
           /\ \E ok \in Oks :
                 /\ hout' = IF ok /\ hws = "open" THEN Append(hout, OfferMsg(c))
                            ELSE hout
                 /\ engine_failed' = IF ok THEN None ELSE c
    /\ UNCHANGED <<hws, hpc, hevents, hclosing, hcd, hdelivered, hprior>>

\* handle_answer, lines 217-230: the answer is applied to the connection
\* stored for its sender, if there is one.  setRemoteDescription raises on
\* a closed connection, on one that has its answer already, and when the
\* engine rejects the description.
HostAnswer(Oks) ==
    /\ hpc = "signaling" /\ hin # <<>>
    /\ Head(hin).type = "answer"
    /\ hin' = Tail(hin)
    /\ LET c == Head(hin).sender
           i == AnswerTarget(peer_connections, c)
       IN  IF i = NoPc
           THEN /\ engine_failed' = None
                /\ UNCHANGED hpcs
           ELSE \E ok \in Oks :
                   IF ok /\ hpcs[i].state # "closed" /\ ~hpcs[i].remote
                   THEN /\ hpcs' = [hpcs EXCEPT ![i].remote = TRUE]
                        /\ engine_failed' = None
                   ELSE /\ engine_failed' = c
                        /\ UNCHANGED hpcs
    /\ UNCHANGED <<hws, hout, hpc, peer_connections, hevents, hclosing, hcd,
                   hdelivered, hprior>>

\* handle_ice_candidate, lines 232-245: with an entry for the sender the
\* candidate is built and handed to the engine, which may raise
HostIceCandidate(Oks) ==
    /\ hpc = "signaling" /\ hin # <<>>
    /\ Head(hin).type = "ice_candidate"
    /\ hin' = Tail(hin)
    /\ LET c == Head(hin).sender
       IN  IF peer_connections[c] = NoPc
           THEN engine_failed' = None
           ELSE \E ok \in Oks : engine_failed' = IF ok THEN None ELSE c
    /\ UNCHANGED <<hws, hout, hpc, peer_connections, hpcs, hevents, hclosing,
                   hcd, hdelivered, hprior>>

\* handle_client_disconnected, lines 247-254: the connection stored for the
\* client is closed, which suspends the handler
HostClientDisconnected ==
    /\ hpc = "signaling" /\ hin # <<>>
    /\ Head(hin).type = "client_disconnected"
    /\ hin' = Tail(hin)
    /\ engine_failed' = None
    /\ LET c == Head(hin).client_id
           i == peer_connections[c]
       IN  IF i = NoPc
           THEN UNCHANGED <<hpcs, peer_connections, hevents, hpc, hcd>>
           ELSE IF CloseSuspends(hpcs, i)
           THEN /\ hpcs' = [hpcs EXCEPT ![i].state = "closed"]
                /\ hevents' \in HostAfterClose(hevents, i)
                /\ hpc' = "cd_closing"
                /\ hcd' = c
                /\ UNCHANGED peer_connections
           ELSE /\ peer_connections' = [peer_connections EXCEPT ![c] = NoPc]
                /\ UNCHANGED <<hpcs, hevents, hpc, hcd>>
    /\ UNCHANGED <<hws, hout, hclosing, hdelivered, hprior>>

\* close() has returned: line 257 (a KeyError, when the entry has gone
\* meanwhile, is logged by line 320)
HostClientDisconnectedResume ==
    /\ hpc = "cd_closing"
    /\ peer_connections' = [peer_connections EXCEPT ![hcd] = NoPc]
    /\ hpc' = "signaling"
    /\ hcd' = None
    /\ UNCHANGED <<hws, hin, hout, hpcs, hevents, hclosing, engine_failed,
                   hdelivered, hprior>>

\* the websocket is closed and every received message has been read: the
\* loop of line 291 ends
HostLoopEnd ==
    /\ hpc = "signaling" /\ hin = <<>>
    /\ hws \in {"closed_ok", "closed_error"}
    /\ IF AfterHostLoop(hws, peer_connections) = "p2p"
       THEN hpc' = "p2p" /\ hprior' = hevents /\ UNCHANGED <<hpcs, hws>>
       ELSE HostShutdown(peer_connections) /\ UNCHANGED hprior
    /\ UNCHANGED <<hin, hout, peer_connections, hevents, hclosing, hcd,
                   engine_failed, hdelivered>>

\* run_p2p_mode wakes up (line 266), sweeps the mapping and tests it again
\* (line 265); with no entry left it returns and start_host shuts down.
\* The callbacks that were scheduled when the sleep began have run by then:
\* the event loop runs what is ready before it waits for a timer.
HostSweep ==
    /\ hpc = "p2p"
    /\ hprior = {}
    /\ peer_connections' = Swept(peer_connections, hpcs)
    /\ IF Sessions(peer_connections') = {}
       THEN HostShutdown(peer_connections') /\ UNCHANGED hprior
       ELSE hprior' = hevents /\ UNCHANGED <<hpc, hpcs, hws>>
    /\ UNCHANGED <<hin, hout, hevents, hclosing, hcd, engine_failed, hdelivered>>

\* the engine changes the connectionState of one of the host's connections
\* to one of the states of To and schedules its on_connectionstatechange
HostEngineChange(i, To) ==
    /\ hpc # "stopped"
    /\ \/ hpcs[i].state = "new" /\ hpcs[i].remote /\ "connecting" \in To
          /\ hpcs' = [hpcs EXCEPT ![i].state = "connecting"]
       \/ hpcs[i].state = "connecting"
          /\ \E st \in {"connected", "failed"} \cap To :
                hpcs' = [hpcs EXCEPT ![i].state = st]
       \/ hpcs[i].state = "connected"
          /\ \E st \in {"disconnected", "failed"} \cap To :
                hpcs' = [hpcs EXCEPT ![i].state = st]
    /\ hevents' = hevents \cup {i}
    /\ UNCHANGED <<hws, hin, hout, hpc, peer_connections, hclosing, hcd,
                   engine_failed, hdelivered, hprior>>

\* on_connectionstatechange of connection i, lines 134-145: it reads the
\* state of the connection it was made for and, when that has ended, closes
\* whatever the mapping holds for the client, which suspends it
HostEvent(i) ==
    /\ hpc # "stopped"
    /\ i \in hevents
    /\ LET c == hpcs[i].owner
           cur == EventTarget(peer_connections, c, i)
       IN  IF CleansUp(hpcs[i].state) /\ peer_connections[c] # NoPc
           THEN IF CloseSuspends(hpcs, cur)
                THEN /\ hpcs' = [hpcs EXCEPT ![cur].state = "closed"]
                     /\ hevents' \in HostAfterClose(hevents \ {i}, cur)
                     /\ hclosing' = hclosing \cup {i}
                     /\ UNCHANGED peer_connections
                ELSE /\ peer_connections' = [peer_connections EXCEPT ![c] = NoPc]
                     /\ hevents' = hevents \ {i}
                     /\ UNCHANGED <<hpcs, hclosing>>
           ELSE /\ hevents' = hevents \ {i}
                /\ UNCHANGED <<hpcs, peer_connections, hclosing>>
    /\ hprior' = hprior \ {i}
    /\ UNCHANGED <<hws, hin, hout, hpc, hcd, engine_failed, hdelivered>>

\* close() has returned in on_connectionstatechange of connection i: line
\* 148 (a KeyError, when the entry has gone meanwhile, ends the callback)
HostEventResume(i) ==
    /\ hpc # "stopped"
    /\ i \in hclosing
    /\ hclosing' = hclosing \ {i}
    /\ peer_connections' = [peer_connections EXCEPT ![hpcs[i].owner] = NoPc]
    /\ UNCHANGED <<hws, hin, hout, hpc, hpcs, hevents, hcd, engine_failed,
                   hdelivered, hprior>>

\* what the rendezvous channel may bring the host
HostInbound ==
    {[type |-> "registered", peer_id |-> HostId, room_id |-> "default"]}
    \cup {RelayFrame(t, c, HostId, 0) :
             t \in {"client_ready", "answer", "ice_candidate"}, c \in ClientIds}
    \cup {[type |-> "client_disconnected", client_id |-> c] : c \in ClientIds}

\* the environment delivers a message to the host
HostDeliver ==
    /\ hws = "open"
    /\ hdelivered < MaxHostInbound
    /\ \E m \in HostInbound : hin' = Append(hin, m)
    /\ hdelivered' = hdelivered + 1
    /\ UNCHANGED <<hws, hout, hpc, peer_connections, hpcs, hevents, hclosing,
                   hcd, engine_failed, hprior>>

\* SpecHost: the host program alone; the environment plays the rendezvous
\* channel and the engine.
NextHost ==
    \/ HostStart /\ UNCHANGED <<srvVars, clVars>>
    \/ HostLog /\ UNCHANGED <<srvVars, clVars>>
    \/ HostClientReady(BOOLEAN) /\ UNCHANGED <<srvVars, clVars>>
    \/ HostAnswer(BOOLEAN) /\ UNCHANGED <<srvVars, clVars>>
    \/ HostIceCandidate(BOOLEAN) /\ UNCHANGED <<srvVars, clVars>>
    \/ HostClientDisconnected /\ UNCHANGED <<srvVars, clVars>>
    \/ HostClientDisconnectedResume /\ UNCHANGED <<srvVars, clVars>>
    \/ HostLoopEnd /\ UNCHANGED <<srvVars, clVars>>
    \/ HostSweep /\ UNCHANGED <<srvVars, clVars>>
    \/ \E i \in HostPcIds :
          HostEngineChange(i, EngineStates) /\ UNCHANGED <<srvVars, clVars>>
    \/ \E i \in HostPcIds : HostEvent(i) /\ UNCHANGED <<srvVars, clVars>>
    \/ \E i \in HostPcIds : HostEventResume(i) /\ UNCHANGED <<srvVars, clVars>>
    \/ HostDeliver /\ UNCHANGED <<srvVars, clVars>>
    \/ HostChannelClose /\ UNCHANGED <<srvVars, clVars>>

SpecHost == Init /\ [][NextHost]_vars

\* the sleep of run_p2p_mode ends, a scheduled callback runs, an awaited
\* close() returns, and a connection whose negotiation is under way
\* connects or fails
HostFairness ==
    /\ WF_vars(HostSweep /\ UNCHANGED <<srvVars, clVars>>)
    /\ \A i \in HostPcIds :
          /\ WF_vars(HostEvent(i) /\ UNCHANGED <<srvVars, clVars>>)
          /\ WF_vars(HostEventResume(i) /\ UNCHANGED <<srvVars, clVars>>)
          /\ WF_vars(hpcs[i].state = "connecting"
                     /\ HostEngineChange(i, EngineStates)
                     /\ UNCHANGED <<srvVars, clVars>>)

SpecHostFair == SpecHost /\ HostFairness

\* ======================================================================
\* The handshake: the server, the host program on websocket w1 and the
\* client program on websocket w2.  No connection drops, no engine fails
\* and no other peer registers.
\* ======================================================================
\* a frame the server has written to the websocket of the client or of the
\* host arrives in the receive buffer of that program
ToPeers ==
    /\ cin' = IF out'.ok /\ out'.to = ClientConn THEN Append(cin, out'.msg)
              ELSE cin
    /\ hin' = IF out'.ok /\ out'.to = HostConn THEN Append(hin, out'.msg)
              ELSE hin
    /\ UNCHANGED <<websocket, cout, cpc, peer_connection, cl_host_id,
                   webrtc_connected, signaling_needed, running, pcs, events,
                   tracks, monitor, quit, timeouts,
                   unanswered, ndelivered, noticed, readied>>
    /\ UNCHANGED <<hws, hout, hpc, peer_connections, hpcs, hevents, hclosing,
                   hcd, engine_failed, hdelivered, hprior>>

\* the frames the host writes in a step arrive in the receive buffer of its
\* handler; the server sees the host's websocket open and close
FromHost ==
    /\ inq' = [inq EXCEPT ![HostConn] =
                  @ \o SubSeq(hout', Len(hout) + 1, Len(hout'))]
    /\ conn' = [conn EXCEPT ![HostConn] =
                   IF hws' = hws THEN @
                   ELSE IF hws' = "open" THEN "open" ELSE "closed"]
    /\ pc' = [pc EXCEPT ![HostConn] =
                 IF hws' # hws /\ hws' = "open" THEN "recv" ELSE @]
    /\ out' = NoSend
    /\ UNCHANGED <<hosts, clients, rooms, peer_id, room_id, host_id,
                   client_ids, todo, nframes, nsent, nids, regd, missed, fwd,
                   dropped, held, sent>>
    /\ UNCHANGED clVars

\* the two engines of a session: the client's connection gets connected
\* only when the host's connection for the client has the answer
EnginesAgree(ps) ==
    \A i \in PcIds :
        ps[i].state = "connected" =>
            \E k \in HostPcIds : hpcs[k].owner = ClientId /\ hpcs[k].remote

\* the engine states of a negotiation that does not fail
Progress == {"connecting", "connected"}

ServerStep(c) ==
    \/ HandleRegister(c, FALSE) /\ ToPeers
    \/ NotifyStart(c, FALSE) /\ ToPeers
    \/ NotifyResume(c, FALSE) /\ ToPeers
    \/ HandleRelay(c) /\ ToPeers

ClientEngineStep(i) ==
    EngineChange(i) /\ pcs'[i].state \in Progress /\ EnginesAgree(pcs') /\ FromClient

NextHandshake ==
    \/ ClientStart /\ FromClient
    \/ HostStart /\ FromHost
    \/ \E c \in {HostConn, ClientConn} : ServerStep(c)
    \/ ClientLog /\ FromClient
    \/ ClientHostAvailable /\ FromClient
    \/ ClientHostAvailableResume /\ FromClient
    \/ ClientOffer /\ FromClient
    \/ \E i \in PcIds : ClientEngineStep(i)
    \/ ClientEvent /\ FromClient
    \/ HostLog /\ FromHost
    \/ HostClientReady({TRUE}) /\ FromHost
    \/ HostAnswer({TRUE}) /\ FromHost
    \/ \E i \in HostPcIds : HostEngineChange(i, Progress) /\ FromHost
    \/ \E i \in HostPcIds : HostEvent(i) /\ FromHost

\* the server's handlers and both programs handle what they have received;
\* nothing is assumed of the engines
HandshakeFairness ==
    /\ \A c \in {HostConn, ClientConn} : WF_vars(ServerStep(c))
    /\ WF_vars(ClientLog /\ FromClient)
    /\ WF_vars(ClientHostAvailable /\ FromClient)
    /\ WF_vars(ClientHostAvailableResume /\ FromClient)
    /\ WF_vars(ClientOffer /\ FromClient)
    /\ WF_vars(HostLog /\ FromHost)
    /\ WF_vars(HostClientReady({TRUE}) /\ FromHost)
    /\ WF_vars(HostAnswer({TRUE}) /\ FromHost)

SpecHandshake == Init /\ [][NextHandshake]_vars /\ HandshakeFairness

\* ======================================================================
\* A further client joins: the server, the client program on websocket w2,
\* a host played by the environment on websocket w1, and a second client,
\* played by the environment on websocket w3, that registers into the room
\* once the session of the first is up.  No connection drops and no engine
\* fails.
\* ======================================================================
OtherConn == "w3"

\* the register frame of the further client (webrtc_client.py, lines 59-64)
OtherRegisterFrame ==
    [type |-> "register", peer_type |-> "client", peer_id |-> "p3",
     room_id |-> Absent]

\* the client's engine has reported connected: the callback has set the
\* flag and the connection the client holds is in state connected
Established ==
    /\ webrtc_connected
    /\ peer_connection # NoPc
    /\ pcs[peer_connection].state = "connected"

\* nothing is under way between the server and the two peers of the session
Quiet ==
    /\ cin = <<>>
    /\ \A c \in {HostConn, ClientConn} : pc[c] = "recv" /\ inq[c] = <<>>

\* the host registers before the further client turns up
HostRegisters ==
    /\ conn[OtherConn] = "idle"
    /\ PeerSendRegister(HostConn, HostRegisterFrames)

\* the further client connects while the session is up
OtherConnects ==
    /\ Established /\ Quiet
    /\ Connect(OtherConn)

\* and sends its register frame
OtherRegisters ==
    /\ conn[OtherConn] = "open" /\ pc[OtherConn] = "recv"
    /\ peer_id[OtherConn] = None /\ inq[OtherConn] = <<>>
    /\ inq' = [inq EXCEPT ![OtherConn] = <<OtherRegisterFrame>>]
    /\ nids' = Max(nids, PeerIdx["p3"])
    /\ out' = NoSend
    /\ UNCHANGED <<hosts, clients, rooms, conn, pc, peer_id, room_id, host_id,
                   client_ids, todo, nframes, nsent, regd, missed, fwd,
                   dropped, held, sent>>

NextJoin ==
    \/ Connect(HostConn) /\ UNCHANGED <<clVars, hoVars>>
    \/ HostRegisters /\ UNCHANGED <<clVars, hoVars>>
    \/ HostSendsToClient /\ UNCHANGED <<clVars, hoVars>>
    \/ OtherConnects /\ UNCHANGED <<clVars, hoVars>>
    \/ OtherRegisters /\ UNCHANGED <<clVars, hoVars>>
    \/ \E c \in Conns :
          \/ HandleRegister(c, FALSE) /\ ToClient
          \/ NotifyStart(c, FALSE) /\ ToClient
          \/ NotifyResume(c, FALSE) /\ ToClient
          \/ HandleRelay(c) /\ ToClient
    \/ ClientStart /\ FromClient
    \/ ClientLog /\ FromClient
    \/ ClientHostAvailable /\ FromClient
    \/ ClientHostAvailableResume /\ FromClient
    \/ ClientOffer /\ FromClient
    \/ ClientIceCandidate /\ FromClient
    \/ ClientP2PEnd /\ FromClient
    \/ ClientMonitorRead /\ FromClient
    \/ \E i \in PcIds :
          EngineChange(i) /\ pcs'[i].state \in {"connecting", "connected"}
          /\ FromClient
    \/ ClientEvent /\ FromClient
    \/ \E i \in PcIds : ClientReceiveEnd(i) /\ FromClient

SpecJoin == Init /\ [][NextJoin]_vars

\* ------------------------------------------------------------------ claims
\* a handler reads a register frame in this step
RegisterStep(c) ==
    /\ pc[c] = "recv" /\ inq[c] # <<>> /\ Head(inq[c]).type = "register"
    /\ inq'[c] = Tail(inq[c])

\* a handler reads a relay frame in this step
RelayStep(c) ==
    /\ pc[c] = "recv" /\ inq[c] # <<>> /\ Head(inq[c]).type \in RelayTypes
    /\ inq'[c] = Tail(inq[c])

\* the finally block of a handler runs in this step
CleanupStep(c) == pc[c] = "recv" /\ pc'[c] = "done"

Registered(p) == p \in DOMAIN hosts \cup DOMAIN clients

\* the websockets registered for p
HandlesOf(p) ==
    {hosts[x] : x \in {p} \cap DOMAIN hosts} \cup
    {clients[x] : x \in {p} \cap DOMAIN clients}

\* C1: in every room the host, if set, is a key of the host registry and
\* every member of the client set is a key of the client registry.
C1_NoDanglingReference ==
    \A r \in DOMAIN rooms :
        /\ rooms[r].host # None => rooms[r].host \in DOMAIN hosts
        /\ rooms[r].clients \subseteq DOMAIN clients

\* C2: a host_available message written to a client names a host that is in
\* the host registry at the moment of the send.
C2_NotifiedHostIsRegistered ==
    (out.msg.type = "host_available" /\ out.ok) => out.msg.host_id \in DOMAIN hosts

\* C3: when the cleanup of a closed connection has run, no registry entry
\* maps to its websocket and no room contains an identity registered over it.
C3_CleanupReleasesConnection ==
    [][\A c \in Conns : CleanupStep(c) =>
          /\ \A p \in DOMAIN hosts' : hosts'[p] # c
          /\ \A p \in DOMAIN clients' : clients'[p] # c
          /\ \A pr \in regd[c] : \A r \in DOMAIN rooms' :
                rooms'[r].host # pr[1] /\ pr[1] \notin rooms'[r].clients]_vars

\* C4: a relay frame whose target is registered makes the server call send
\* once, on a websocket registered for the target, with the frame's type,
\* sender, target and payload; the frame is written when that websocket is
\* open; registry and rooms do not change.
C4_RelayForwardsToTarget ==
    [][\A c \in Conns : (RelayStep(c) /\ Registered(Head(inq[c]).target)) =>
          /\ out'.by = c
          /\ out'.to \in HandlesOf(Head(inq[c]).target)
          /\ out'.msg = Head(inq[c])
          /\ out'.ok = (conn[out'.to] = "open")
          /\ UNCHANGED <<hosts, clients, rooms>>]_vars

C4_Witness ==
    /\ out.ok /\ out.msg.type \in RelayTypes /\ out.to # out.by
    /\ out.msg.target \in DOMAIN hosts /\ out.msg.sender \in DOMAIN clients

\* C5: a relay frame whose target is not registered sends nothing, changes
\* neither registry nor rooms and leaves the sender's connection and handler
\* as they were; a later relay frame to that target, once it is registered,
\* is forwarded to its websocket.
C5_UnknownTargetIsDropped ==
    [][\A c \in Conns : RelayStep(c) =>
          LET m == Head(inq[c])
          IN  /\ ~Registered(m.target) =>
                    /\ out' = NoSend
                    /\ UNCHANGED <<hosts, clients, rooms, conn>>
                    /\ pc'[c] = "recv"
              /\ (Registered(m.target) /\ m.target \in missed) =>
                    /\ out'.to \in HandlesOf(m.target)
                    /\ out'.msg = m
                    /\ out'.ok = (conn[out'.to] = "open")]_vars

C5_Witness ==
    /\ out.ok /\ out.msg.type = "client_ready" /\ out.msg.target \in missed
    /\ out.msg.target \in DOMAIN hosts

\* C6: when notify_peers, run by a registration, returns with no send having
\* failed, and H has been the room's registered host and C a registered
\* client of the room ever since that registration updated the room, then it
\* has sent host_available(H) to C's websocket and a clients_available whose
\* client_ids contains C to H's websocket.
C6_BothSidesAreNotified ==
    [][\A c \in Conns :
          (/\ pc[c] \in {"sent_registered", "notifying"}
           /\ pc'[c] = "recv"
           /\ (out' = NoSend \/ out'.ok)
           /\ held[c].host # None) =>
          LET H == held[c].host
              r == room_id[c]
              all == sent[c] \cup {[to |-> out'.to, msg |-> out'.msg]}
          IN  \A C \in held[c].clients :
                 /\ [to |-> clients[C], msg |-> HostAvailableMsg(H, r)] \in all
                 /\ \E s \in all :
                       /\ s.to = hosts[H]
                       /\ s.msg.type = "clients_available"
                       /\ C \in s.msg.client_ids]_vars

C6_Witness ==
    /\ out.ok /\ out.msg.type = "clients_available"
    /\ \E H \in DOMAIN hosts, C \in DOMAIN clients :
          /\ out.to = hosts[H] /\ C \in out.msg.client_ids
          /\ hosts[H] # clients[C]
          /\ pc[out.by] = "recv"

\* C7: the frames one connection relays to one target are forwarded in the
\* order the peer sent them (the payloads number them in that order).
C7_RelayKeepsSendOrder ==
    [][\A c \in Conns : \A new \in fwd'[c] \ fwd[c] : \A old \in fwd[c] :
          old[1] = new[1] => old[2] < new[2]]_vars

C7_Witness ==
    \E c \in Conns, t \in PeerIds : {<<t, 1>>, <<t, 2>>} \subseteq fwd[c]

\* C8: a register frame of a host makes its peer_id the host of the room,
\* whoever was the host before; a room's host is one id or None.
C8_LastHostWins ==
    [][\A c \in Conns : (RegisterStep(c) /\ Head(inq[c]).peer_type = "host") =>
          /\ rooms'[ResolveRoom(Head(inq[c]))].host = Head(inq[c]).peer_id
          /\ \A r \in DOMAIN rooms' : rooms'[r].host \in PeerIds \cup {None}]_vars

C8_Witness ==
    /\ DOMAIN rooms = {"r1"}
    /\ {"p1", "p2"} \subseteq DOMAIN hosts
    /\ rooms["r1"].host = "p2"
    /\ out.msg = [type |-> "registered", peer_id |-> "p2", room_id |-> "r1"]

\* C9: after the cleanup of a connection whose peer_id is p, no room has p
\* as its host or in its client set.
C9_CleanupLeavesEveryRoom ==
    [][\A c \in Conns : (CleanupStep(c) /\ peer_id[c] # None) =>
          \A r \in DOMAIN rooms' :
             rooms'[r].host # peer_id[c] /\ peer_id[c] \notin rooms'[r].clients]_vars

C9_Witness ==
    \E c \in Conns :
        /\ pc[c] = "done" /\ peer_id[c] # None
        /\ {<<peer_id[c], "default">>, <<peer_id[c], "r1">>} \subseteq regd[c]
        /\ DOMAIN rooms = {"default", "r1"}
        /\ RoomsOf(peer_id[c]) = {}

\* C10: no peer identity is a member, as host or as client, of more than one
\* room.
C10_AtMostOneRoom ==
    \A p \in PeerIds : Cardinality(RoomsOf(p)) <= 1

\* the availability notices of notify_peers
NoticeTypes == {"host_available", "clients_available"}

\* C11: a handler that reads a register frame calls send on its own websocket
\* with a registered message carrying the frame's peer_id and the resolved
\* room_id ("default" when the frame has none); the handler enters
\* notify_peers only from such a step whose send was written, and it sends
\* availability notices only inside notify_peers, so on the sender's
\* connection the registered message comes before every notice of the same
\* registration.
C11_RegisteredComesFirst ==
    [][\A c \in Conns :
          /\ RegisterStep(c) =>
                LET m == Head(inq[c])
                IN  /\ out'.by = c /\ out'.to = c
                    /\ out'.msg.type = "registered"
                    /\ out'.msg.peer_id = m.peer_id
                    /\ out'.msg.room_id =
                          (IF m.room_id = Absent THEN "default" ELSE m.room_id)
                    /\ out'.ok = (conn[c] = "open")
          /\ (pc[c] = "recv" /\ pc'[c] \in {"sent_registered", "notifying"}) =>
                RegisterStep(c) /\ out'.ok /\ out'.msg.type = "registered"
          /\ (out'.by = c /\ out'.msg.type \in NoticeTypes) =>
                pc[c] \in {"sent_registered", "notifying"}]_vars

C11_Witness ==
    /\ out.ok /\ out.msg.type = "clients_available"
    /\ out.to = out.by /\ out.msg.room_id = "default"
    /\ regd[out.by] = {<<rooms["default"].host, "default">>}

\* a handler reads, in this step, a frame that is unparseable or whose type
\* is none of register, offer, answer, ice_candidate, client_ready
DropStep(c) ==
    /\ pc[c] = "recv" /\ inq[c] # <<>>
    /\ Head(inq[c]).type \notin {"register"} \cup RelayTypes
    /\ inq'[c] = Tail(inq[c])

\* C12: a frame that is unparseable or of a type other than register, offer,
\* answer, ice_candidate, client_ready changes neither registry nor rooms,
\* sends nothing and leaves the connection and its handler as they were; a
\* register frame read after it on the same connection is processed (the
\* peer is registered on that connection and answered).
C12_DroppedFrameIsNoOp ==
    [][\A c \in Conns :
          /\ DropStep(c) =>
                /\ UNCHANGED <<hosts, clients, rooms, conn>>
                /\ out' = NoSend
                /\ pc'[c] = "recv"
          /\ (dropped[c] > 0 /\ RegisterStep(c)) =>
                LET m == Head(inq[c])
                IN  /\ m.peer_type = "host" => hosts'[m.peer_id] = c
                    /\ m.peer_type = "client" => clients'[m.peer_id] = c
                    /\ out'.to = c /\ out'.msg.type = "registered"]_vars

C12_Witness ==
    \E c \in Conns :
        /\ dropped[c] = 2 /\ conn[c] = "open"
        /\ \E p \in DOMAIN hosts : hosts[p] = c
        /\ out.ok /\ out.to = c /\ out.msg.type = "registered"

\* C13: when a send of notify_peers fails on the websocket of one member,
\* the registering connection stays as it is (open, registered, its handler
\* back in the receive loop), and every other registered member of the room
\* whose websocket is open has been sent its notice by this notify_peers:
\* host_available for a client, clients_available for the host.
C13_FailedSendIsIsolated ==
    [][\A c \in Conns :
          (/\ pc[c] \in {"sent_registered", "notifying"}
           /\ out'.by = c /\ out'.msg.type \in NoticeTypes
           /\ ~out'.ok /\ out'.to # c) =>
          LET r == room_id[c]
              H == rooms[r].host
              members == rooms[r].clients \cap DOMAIN clients
          IN  /\ UNCHANGED <<hosts, clients, rooms, conn>>
              /\ pc'[c] = "recv"
              /\ HostPresent(H, hosts) =>
                    /\ \A x \in members :
                          (clients[x] # out'.to /\ conn[clients[x]] = "open") =>
                             [to |-> clients[x], msg |-> HostAvailableMsg(H, r)]
                                \in sent[c]
                    /\ (hosts[H] # out'.to /\ conn[hosts[H]] = "open"
                          /\ members # {}) =>
                             \E s \in sent[c] :
                                /\ s.to = hosts[H]
                                /\ s.msg.type = "clients_available"]_vars

\* C14: the cleanup of a connection sends nothing, and every message the
\* server sends is a registered, host_available or clients_available
\* message, or the unchanged frame of type offer, answer, ice_candidate or
\* client_ready its handler has just read.
C14_NoDisconnectNotice ==
    [][/\ \A c \in Conns : CleanupStep(c) => out' = NoSend
       /\ out' # NoSend =>
             \/ out'.msg.type \in {"registered"} \cup NoticeTypes
             \/ /\ out'.msg.type \in RelayTypes
                /\ RelayStep(out'.by)
                /\ out'.msg = Head(inq[out'.by])]_vars

C14_Witness ==
    \E c \in Conns :
        /\ pc[c] = "done" /\ peer_id[c] # None /\ out = NoSend
        /\ \E d \in Conns \ {c} : dropped[d] > 0 /\ fwd[d] # {}

\* the client reads a host_available message in this step
NoticeStep ==
    /\ cin # <<>> /\ Head(cin).type = "host_available"
    /\ cin' = Tail(cin)

\* C16: once the engine has reported connected, the close of the rendezvous
\* channel, with or without a close frame, changes nothing in the client;
\* with the channel closed and every message read, the client goes on to the
\* P2P session and stays there with its flag set and its engine connection
\* open; it stops only when the display has stopped, and the running flag
\* is cleared only by an engine callback, by the end of a media track or by
\* the user.
C16_SessionSurvivesChannelClose ==
    [][/\ (Established /\ websocket = "open" /\ websocket' # "open"
            /\ cpc' = cpc) =>
             UNCHANGED <<cpc, peer_connection, webrtc_connected, running, pcs>>
       /\ (Established /\ websocket \in {"closed_ok", "closed_error"}
            /\ cin = <<>> /\ cpc \in {"signaling", "p2p"}) =>
             /\ cpc' = "stopped" => ~running
             /\ cpc' # "stopped" =>
                   /\ cpc' \in {cpc, "p2p"}
                   /\ webrtc_connected'
                   /\ peer_connection' = peer_connection
                   /\ pcs'[peer_connection].state # "closed"
             /\ (running /\ ~running') =>
                   events' < events \/ tracks' # tracks \/ quit']_vars

C16_Witness ==
    /\ Established /\ running
    /\ cpc = "p2p" /\ monitor = "ended"
    /\ websocket = "closed_error" /\ cin = <<>>

\* C19: a host_available message read by a client whose engine has reported
\* connected, in the signaling loop or in the P2P session, closes the
\* engine connection the client holds; the client then holds a new one, has
\* written a client_ready for the announced host and awaits the offer in
\* its signaling loop.
C19_NoticeRestartsSession ==
    [][/\ (NoticeStep /\ Established /\ websocket = "open") =>
             /\ pcs'[peer_connection].state = "closed"
             /\ cl_host_id' = Head(cin).host_id
             /\ cpc' = "ha_closing"
       /\ (cpc = "ha_closing" /\ cpc' # "ha_closing" /\ websocket = "open") =>
             /\ peer_connection' # peer_connection
             /\ pcs'[peer_connection'].state = "new"
             /\ cout' = Append(cout, ClientReadyMsg(cl_host_id))
             /\ cpc' = "signaling"]_vars

\* C20: whenever the client is between two messages and its channel is
\* open, it has written one client_ready for every host_available it has
\* read; at every moment at most one of its engine connections is not
\* closed.
C20_OneReadyPerNotice ==
    /\ (cpc \in {"start", "signaling", "p2p"} /\ websocket = "open") =>
          readied = noticed
    /\ Cardinality({i \in PcIds : pcs[i].state \notin {"none", "closed"}}) <= 1

\* C15: when the handler of the host's closed connection runs its cleanup
\* while the client's engine has reported connected, the host leaves the
\* host registry and every room that had it as host, nothing is sent to the
\* client, and the client keeps its connected flag, its place in the
\* program and its engine connection as they are; the close of the host's
\* connection itself changes nothing in the client either.
C15_HostDropSparesClient ==
    [][/\ (CleanupStep(HostConn) /\ peer_id[HostConn] # None /\ Established) =>
             /\ peer_id[HostConn] \notin DOMAIN hosts'
             /\ \A r \in DOMAIN rooms' : rooms'[r].host # peer_id[HostConn]
             /\ out' = NoSend /\ cin' = cin
             /\ webrtc_connected'
             /\ pcs'[peer_connection'].state = "connected"
             /\ UNCHANGED <<cpc, peer_connection, running>>
       /\ (conn[HostConn] = "open" /\ conn'[HostConn] = "closed" /\ Established) =>
             UNCHANGED <<cpc, peer_connection, webrtc_connected, running, pcs, cin>>]_vars

C15_Witness ==
    /\ pc[HostConn] = "done" /\ peer_id[HostConn] = "p1"
    /\ "p1" \notin DOMAIN hosts /\ rooms["default"].host = None
    /\ ClientId \in rooms["default"].clients
    /\ Established /\ running /\ cpc = "p2p" /\ websocket = "open"
    /\ pcs[peer_connection].remote = "p1"

\* a client has an entry whose engine connection is connected
ConnectedSessions ==
    {c \in ClientIds : peer_connections[c] # NoPc
                        /\ hpcs[peer_connections[c]].state = "connected"}

\* C17: when the host leaves its signaling loop because the websocket has
\* closed, with a close frame or without, and a client session is
\* connected, the host does not stop and every connected session keeps its
\* entry and its open connection.
C17_HostOutlivesChannel ==
    [][(hpc = "signaling" /\ hpc' # "signaling" /\ ConnectedSessions # {}) =>
          /\ hpc' = "p2p"
          /\ \A c \in ConnectedSessions :
                /\ peer_connections'[c] = peer_connections[c]
                /\ hpcs'[peer_connections[c]].state = "connected"]_vars

\* C18: a host that is in P2P mode with a connected client session stops
\* in the end, unless a session is connected again and again: once the last
\* connected session has ended, the loop of run_p2p_mode exits.
C18_HostStopsAfterLastSession ==
    []((hpc = "p2p" /\ ConnectedSessions # {}) =>
          (<>(hpc = "stopped") \/ []<>(ConnectedSessions # {})))

\* the step that ends the host_available branch for host h: a connection
\* object that did not exist becomes self.peer_connection, and on an open
\* websocket exactly the ready signal for h is written
ReadyFor(h) ==
    /\ peer_connection' \notin {NoPc, peer_connection}
    /\ pcs[peer_connection'].state = "none"
    /\ pcs'[peer_connection'] = [state |-> "new", remote |-> None]
    /\ cout' = IF websocket = "open"
               THEN Append(cout, [type |-> "client_ready", sender |-> ClientId,
                                  target |-> h, payload |-> 0])
               ELSE cout

\* C21: when the client has processed host_available(h) in its signaling
\* loop, self.host_id is h, self.peer_connection is a new connection, and
\* the client_ready it wrote has the client's id as sender and h as target.
C21_ReadyGoesToAnnouncedHost ==
    [][/\ (cpc = "signaling" /\ cin # <<>> /\ Head(cin).type = "host_available"
           /\ cin' = Tail(cin)) =>
             /\ cl_host_id' = Head(cin).host_id
             /\ peer_connection = NoPc => ReadyFor(Head(cin).host_id)
             /\ peer_connection # NoPc => cpc' = "ha_closing"
       /\ cpc = "ha_closing" =>
             /\ cl_host_id' = cl_host_id
             /\ cpc' # "ha_closing" => ReadyFor(cl_host_id)]_vars

C21_Witness ==
    /\ cpc = "signaling" /\ cl_host_id = "p3" /\ readied = 2
    /\ peer_connection = 2 /\ pcs[1].state = "closed" /\ pcs[2].state = "new"
    /\ cout # <<>>
    /\ cout[Len(cout)] = [type |-> "client_ready", sender |-> ClientId,
                          target |-> "p3", payload |-> 0]
    /\ \E k \in 1..Len(cout) : cout[k].type = "client_ready" /\ cout[k].target = "p1"

\* C22: when the engine has reported failed or disconnected for the
\* client's connection, the client stops (cleanup runs) or starts over with
\* another connection; it does not go on waiting with the dead connection.
C22_EngineEndStopsClient ==
    \A i \in PcIds :
        [](( /\ peer_connection = i
             /\ pcs[i].state \in {"failed", "disconnected"}
             /\ cpc # "stopped" )
           => <>(cpc = "stopped" \/ peer_connection # i))

\* the callback on_connectionstatechange runs and finds the connection
\* connected
ReportsConnected ==
    /\ events' = events - 1
    /\ peer_connection # NoPc
    /\ pcs[peer_connection].state = "connected"

\* C23: when on_connectionstatechange finds the engine connected it sets
\* webrtc_connected and clears signaling_needed; signaling_needed is never
\* set again, and while it is cleared the client writes no ice_candidate
\* frame to the rendezvous channel.
C23_NoCandidateOnceConnected ==
    [][/\ ReportsConnected => webrtc_connected' /\ ~signaling_needed'
       /\ ~signaling_needed =>
             /\ ~signaling_needed'
             /\ Candidates(cout') = Candidates(cout)]_vars

C23_Witness ==
    /\ ~signaling_needed /\ webrtc_connected
    /\ Candidates(cout) # {}
    /\ cout[Len(cout)].type = "client_ready"
    /\ \E i \in PcIds : pcs[i].state = "connected"

\* the host's message loop takes a message of type t from its websocket
HostReads(t) ==
    /\ hpc = "signaling" /\ hin # <<>>
    /\ Head(hin).type = t
    /\ hin' = Tail(hin)

\* no connection is stored under two client ids, and every stored
\* connection was created for the client it is stored under
OwnConnections(pcmap, ps) ==
    \A c \in ClientIds :
        pcmap[c] # NoPc =>
            /\ ps[pcmap[c]].owner = c
            /\ \A d \in ClientIds \ {c} : pcmap[d] # pcmap[c]

\* C24: handling client_ready from client c, the host creates a connection
\* that did not exist, for c, and stores it under c, leaving the other
\* entries alone; it writes at most the offer from the host to c, and
\* exactly that when the engine did not fail and the websocket is open.  No
\* connection is ever stored under two client ids.
C24_FreshConnectionAndOneOffer ==
    [][/\ HostReads("client_ready") =>
             LET c == Head(hin).sender
                 n == peer_connections'[c]
                 offer == [type |-> "offer", sender |-> HostId, target |-> c,
                           payload |-> 0]
             IN  /\ n # NoPc
                 /\ hpcs[n].state = "none"
                 /\ hpcs'[n] = [state |-> "new", owner |-> c, remote |-> FALSE]
                 /\ \A d \in ClientIds \ {c} :
                       peer_connections'[d] = peer_connections[d]
                 /\ hout' = IF engine_failed' = None /\ hws = "open"
                            THEN Append(hout, offer) ELSE hout
       /\ OwnConnections(peer_connections', hpcs')]_vars

C24_Witness ==
    /\ hpc = "signaling" /\ hws = "open" /\ engine_failed = None
    /\ peer_connections["p2"] = 3 /\ peer_connections["p3"] = 2
    /\ hpcs[1].owner = "p2" /\ hpcs[1].state = "new"
    /\ Len(hout) = 4
    /\ hout[2].target = "p2" /\ hout[3].target = "p3" /\ hout[4].target = "p2"
    /\ \A k \in 2..4 : hout[k].type = "offer" /\ hout[k].sender = HostId

\* C25: an answer from client c is applied to the connection stored under
\* c, which was created for c, and touches no other connection; an answer
\* or ice_candidate from a client without entry changes no connection and
\* no entry, raises nothing, and the host goes on reading messages.
C25_AnswerGoesToOwnSession ==
    [][(HostReads("answer") \/ HostReads("ice_candidate")) =>
          LET c == Head(hin).sender
              i == peer_connections[c]
          IN  /\ hpc' = "signaling"
              /\ peer_connections' = peer_connections
              /\ \A k \in HostPcIds \ {i} : hpcs'[k] = hpcs[k]
              /\ i # NoPc => hpcs[i].owner = c
              /\ i = NoPc => engine_failed' = None
              /\ (i # NoPc /\ engine_failed' = None /\ Head(hin).type = "answer")
                    => hpcs'[i].remote]_vars

C25_Witness ==
    /\ hpc = "signaling"
    /\ peer_connections["p2"] = 1 /\ peer_connections["p3"] = 2
    /\ hpcs[2].remote /\ ~hpcs[1].remote
    /\ hpcs[2].state = "new" /\ engine_failed = None
    /\ hin = <<>> /\ hdelivered = 3

\* on_connectionstatechange of connection i runs (from its start): it
\* leaves the scheduled callbacks, unless its own close() schedules it again
HostReports(i) ==
    /\ i \in hevents /\ hin' = hin /\ hpc' = hpc
    /\ \/ i \notin hevents'
       \/ /\ hevents' = hevents /\ hclosing' = hclosing \cup {i}
          /\ hpcs[i].state \in {"failed", "disconnected"}
          /\ hpcs'[i].state = "closed"

\* C26: a callback that finds its connection connected keeps every entry;
\* one that finds it closed, failed or disconnected removes the client's
\* entry, at once or when the awaited close() has returned.  So while the
\* host runs, with no callback scheduled or suspended, no entry of the
\* mapping has a connection in a terminal state.
C26_NoTerminalEntryLeft ==
    /\ []((hpc \in {"signaling", "p2p"} /\ hevents = {} /\ hclosing = {}) =>
             \A c \in ClientIds :
                 peer_connections[c] # NoPc =>
                     hpcs[peer_connections[c]].state \notin Terminal)
    /\ [][\A i \in HostPcIds :
             /\ HostReports(i) =>
                   IF hpcs[i].state \in Terminal
                   THEN peer_connections'[hpcs[i].owner] = NoPc \/ i \in hclosing'
                   ELSE peer_connections' = peer_connections
             /\ (i \in hclosing /\ i \notin hclosing') =>
                   peer_connections'[hpcs[i].owner] = NoPc]_vars

C26_Witness ==
    /\ hpc = "signaling" /\ hevents = {} /\ hclosing = {}
    /\ peer_connections["p2"] = NoPc /\ hpcs[1].owner = "p2"
    /\ hpcs[1].state = "closed" /\ hpcs[1].remote
    /\ peer_connections["p3"] = 2 /\ hpcs[2].state = "connected"
    /\ hin = <<>> /\ hdelivered = 4

\* the entries whose connection has ended
TerminalSessions ==
    {c \in ClientIds : peer_connections[c] # NoPc
                        /\ hpcs[peer_connections[c]].state \in Terminal}

\* C27: when handle_client_disconnected has finished for client c, c has no
\* entry and the connection it had is closed; and a sweep of run_p2p_mode
\* removes every entry whose connection is in a terminal state and leaves
\* that connection closed.
C27_TerminalSessionsRemovedAndClosed ==
    [][/\ (HostReads("client_disconnected") /\ hpc' = "signaling") =>
             LET c == Head(hin).client_id
             IN  /\ peer_connections'[c] = NoPc
                 /\ peer_connections[c] # NoPc =>
                       hpcs'[peer_connections[c]].state = "closed"
       /\ (hpc = "cd_closing" /\ hpc' = "signaling") =>
             peer_connections'[hcd] = NoPc
       /\ (hpc = "p2p" /\ hevents' = hevents /\ hclosing' = hclosing) =>
             \A c \in TerminalSessions :
                 /\ peer_connections'[c] = NoPc
                 /\ hpcs'[peer_connections[c]].state = "closed"]_vars

\* the entry and the connection of every client but c are as they were
OthersUntouched(c) ==
    \A d \in ClientIds \ {c} :
        /\ peer_connections'[d] = peer_connections[d]
        /\ peer_connections[d] # NoPc =>
              hpcs'[peer_connections[d]] = hpcs[peer_connections[d]]

\* C28: a run of on_connectionstatechange for a connection of client c, an
\* engine error while a message of c is handled, and the handling of
\* client_disconnected for c leave the entry and the connection of every
\* other client as they were; after an engine error the host goes on
\* reading messages.
C28_OnlyOwnSessionTouched ==
    [][/\ \A i \in HostPcIds :
             (HostReports(i) \/ (i \in hclosing /\ i \notin hclosing')) =>
                 OthersUntouched(hpcs[i].owner)
       /\ \A t \in {"client_ready", "answer", "ice_candidate"} :
             (HostReads(t) /\ engine_failed' # None) =>
                 /\ engine_failed' = Head(hin).sender
                 /\ OthersUntouched(engine_failed')
                 /\ hpc' = "signaling"
       /\ HostReads("client_disconnected") =>
             OthersUntouched(Head(hin).client_id)
       /\ (hpc = "cd_closing" /\ hpc' = "signaling") => OthersUntouched(hcd)]_vars

C28_Witness ==
    /\ hpc = "signaling" /\ hevents = {} /\ hclosing = {}
    /\ peer_connections["p2"] = NoPc /\ hpcs[1].owner = "p2"
    /\ hpcs[1].state = "closed" /\ ~hpcs[1].remote
    /\ peer_connections["p3"] = 2 /\ hpcs[2].state = "new" /\ hpcs[2].remote
    /\ hin = <<>> /\ hdelivered = 4

\* C29: when the engine has raised while the host handled a client_ready,
\* answer or ice_candidate of client c, c has no entry in the mapping once
\* the error is handled.
C29_EngineErrorEndsSession ==
    [][\A t \in {"client_ready", "answer", "ice_candidate"} :
          (HostReads(t) /\ engine_failed' # None) =>
              peer_connections'[engine_failed'] = NoPc]_vars

\* the server has the host and the client registered in the room "default"
BothRegistered ==
    /\ HostId \in DOMAIN hosts /\ ClientId \in DOMAIN clients
    /\ "default" \in DOMAIN rooms
    /\ rooms["default"].host = HostId
    /\ ClientId \in rooms["default"].clients

\* the client has sent client_ready to the host, the host has sent an offer
\* to the client, and a connection the host created for the client has the
\* client's answer as its remote description
HandshakeDone ==
    /\ \E k \in 1..Len(cout) :
          cout[k].type = "client_ready" /\ cout[k].sender = ClientId
          /\ cout[k].target = HostId
    /\ \E k \in 1..Len(hout) :
          hout[k].type = "offer" /\ hout[k].sender = HostId
          /\ hout[k].target = ClientId
    /\ \E i \in HostPcIds : hpcs[i].owner = ClientId /\ hpcs[i].remote

\* C30: once a host and a client are registered in the same room, in
\* whichever order they came, and neither websocket closes, no engine fails
\* and no other peer registers, the handshake completes.
C30_HandshakeCompletes == BothRegistered ~> HandshakeDone

C30_Witness ==
    /\ BothRegistered /\ HandshakeDone
    /\ conn[HostConn] = "open" /\ conn[ClientConn] = "open"
    /\ peer_connection # NoPc /\ pcs[peer_connection].state = "connected"
    /\ hpcs[peer_connections[ClientId]].state = "connected"

\* C31: a watchdog task that fires changes no session state: the connected
\* flag, the running flag, the engine connection and its state, the host id,
\* the rendezvous connection and the position of the program stay as they
\* are.
C31_WatchdogChangesNothing ==
    [][timeouts' # timeouts =>
          UNCHANGED <<webrtc_connected, running, peer_connection, pcs,
                      cl_host_id, websocket, cpc, signaling_needed>>]_vars

\* a watchdog has fired and the session goes on, connected and displaying
C31_Witness ==
    /\ timeouts > 0
    /\ webrtc_connected /\ running
    /\ cpc = "p2p"
    /\ peer_connection # NoPc /\ pcs[peer_connection].state = "connected"

\* C32: when an identity has been registered again over another connection,
\* a relay frame for it goes to the connection now registered, and the
\* cleanup of the old connection leaves the identity in the registry and in
\* its rooms.
C32_ReRegistrationSurvivesOldClose ==
    [][\A c \in Conns : \A p \in PeerIds :
          /\ (RelayStep(c) /\ Head(inq[c]).target = p /\ Registered(p)) =>
                 out'.to \in HandlesOf(p)
          /\ (CleanupStep(c) /\ peer_id[c] = p /\ HandlesOf(p) # {}
                 /\ c \notin HandlesOf(p)) =>
                 /\ HandlesOf(p)' = HandlesOf(p)
                 /\ RoomsOf(p)' = RoomsOf(p)]_vars

\* connection i was created for a client whose entry now holds another
\* connection
Superseded(i) ==
    /\ hpcs[i].owner # None
    /\ peer_connections[hpcs[i].owner] \notin {NoPc, i}

\* C33: a run of on_connectionstatechange of a superseded connection that
\* has ended, from its start or from the return of its close(), leaves the
\* entry of the client in the mapping and does not close the connection
\* stored there.
C33_SupersededEventSparesSession ==
    [][\A i \in HostPcIds : \A c \in ClientIds : \A cur \in HostPcIds :
          (Superseded(i) /\ hpcs[i].owner = c /\ peer_connections[c] = cur) =>
              /\ (HostReports(i) /\ hpcs[i].state \in Terminal) =>
                     /\ peer_connections'[c] = cur
                     /\ hpcs'[cur].state = hpcs[cur].state
              /\ (i \in hclosing /\ i \notin hclosing') =>
                     peer_connections'[c] = cur]_vars

\* C34: every connection the host has created and not closed is the value
\* of the mapping for some client.
C34_OpenConnectionsAreReferenced ==
    \A i \in HostPcIds :
        hpcs[i].state \notin {"none", "closed"} =>
            \E c \in ClientIds : peer_connections[c] = i

\* the client's signaling loop reads an offer in this step
OfferStep ==
    /\ cpc = "signaling" /\ cin # <<>> /\ Head(cin).type = "offer"
    /\ cin' = Tail(cin)

\* C35: an answer the client writes is the answer to the offer it has just
\* applied to its connection, and its target is the sender of that offer.
C35_AnswerGoesToOfferSender ==
    [][/\ (OfferStep /\ cout' # cout) =>
             /\ cout' = Append(cout, cout'[Len(cout')])
             /\ cout'[Len(cout')].type = "answer"
             /\ cout'[Len(cout')].sender = ClientId
             /\ pcs'[peer_connection].remote = Head(cin).sender
             /\ cout'[Len(cout')].target = Head(cin).sender
       /\ (~OfferStep /\ cout' # cout) =>
             cout'[Len(cout')].type # "answer"]_vars

\* C36: from the moment a further client has connected to the server, the
\* client whose engine connection is connected keeps that connection, in
\* state connected, and keeps its connected flag.
C36_JoinSparesEstablishedSession ==
    [][(Established /\ conn[OtherConn] # "idle") =>
          /\ peer_connection' = peer_connection
          /\ pcs'[peer_connection].state = "connected"
          /\ webrtc_connected']_vars

\* C37: an offer read while the client holds no connection is not answered
\* and changes nothing: the client stays in its signaling loop with its
\* flags, host id, connections and websocket as they were; and a
\* host_available read after such an offer is handled as any other: the
\* announced host is recorded, a new connection is created and client_ready
\* is written.
C37_OfferWithoutConnectionIsDropped ==
    [][/\ (OfferStep /\ peer_connection = NoPc) =>
             /\ cpc' = "signaling"
             /\ unanswered'
             /\ UNCHANGED <<cout, peer_connection, cl_host_id, webrtc_connected,
                            signaling_needed, running, pcs, websocket, tracks,
                            events, monitor, timeouts>>
       /\ (NoticeStep /\ cpc = "signaling" /\ unanswered
            /\ peer_connection = NoPc) =>
             /\ cl_host_id' = Head(cin).host_id
             /\ ReadyFor(Head(cin).host_id)
             /\ cpc' \in {"signaling", "p2p"}]_vars

\* the first message was an offer, the second a host_available: the client
\* has written client_ready and awaits the offer with a new connection
C37_Witness ==
    /\ unanswered /\ noticed = 1 /\ ndelivered = 2 /\ cin = <<>>
    /\ cpc = "signaling" /\ websocket = "open"
    /\ cl_host_id = "p1" /\ peer_connection = 1
    /\ pcs[1] = [state |-> "new", remote |-> None]
    /\ cout = <<ClientRegisterFrame, ClientReadyMsg("p1")>>

\* C38: a host_available notice of notify_peers for room r goes to a client
\* that is a member of r when it is sent, and a clients_available notice to
\* a host that is a member of r.
C38_NoticesStayInTheRoom ==
    [][\A c \in Conns :
          (pc[c] \in {"sent_registered", "notifying"} /\ out'.by = c
             /\ out'.ok) =>
              LET r == out'.msg.room_id
                  targets == IF pc[c] = "notifying" THEN todo[c]
                             ELSE rooms[room_id[c]].clients
                  hid == IF pc[c] = "notifying" THEN host_id[c]
                         ELSE rooms[room_id[c]].host
              IN  /\ out'.msg.type = "host_available" =>
                         \E x \in (targets \ todo'[c]) \cap DOMAIN clients :
                             /\ clients[x] = out'.to
                             /\ x \in rooms[r].clients
                  /\ out'.msg.type = "clients_available" =>
                         /\ hosts[hid] = out'.to
                         /\ r \in RoomsOf(hid)]_vars

====
